---- MODULE Spec2Model ----
(***************************************************************************)
(* A model of toptle (src/toptle.py): a terminal proxy that runs a child   *)
(* command, rewrites the terminal-title escape sequences of its output so  *)
(* that they carry CPU/memory statistics, and pushes titles proactively    *)
(* from a sampler thread.                                                  *)
(*                                                                         *)
(* Bytes are integers 0..255, text is a sequence of Unicode code points.   *)
(* Time is counted in ticks of half a second.                              *)
(***************************************************************************)
EXTENDS Integers, Sequences, FiniteSets, TLC

(***************************************************************************)
(* Bytes and code points that the source names.                            *)
(***************************************************************************)
ESC == 27
BEL == 7
RBRACKET == 93
SEMICOLON == 59
BACKSLASH == 92
DIGIT0 == 48
DIGIT1 == 49
DIGIT2 == 50
SPACE == 32
PIPE == 124
QUESTION == 63
REPLACEMENT == 65533

\* " | ", the separator of modify_title_sequence and of the proactive push.
SEPARATOR == <<SPACE, PIPE, SPACE>>

(***************************************************************************)
(* bytes.decode('utf-8', errors='replace'): every maximal ill-formed       *)
(* subpart becomes one U+FFFD.                                             *)
(***************************************************************************)
IsCont(b) == b >= 128 /\ b <= 191

\* The second byte a lead byte accepts (the well-formed UTF-8 table).
SecondOk(lead, b) ==
    IF lead = 224 THEN b >= 160 /\ b <= 191
    ELSE IF lead = 237 THEN b >= 128 /\ b <= 159
    ELSE IF lead = 240 THEN b >= 144 /\ b <= 191
    ELSE IF lead = 244 THEN b >= 128 /\ b <= 143
    ELSE IsCont(b)

RECURSIVE DecodeFrom(_, _)
DecodeFrom(b, i) ==
    IF i > Len(b) THEN <<>>
    ELSE LET c == b[i]
             has(k) == i + k <= Len(b)
         IN
         IF c < 128 THEN <<c>> \o DecodeFrom(b, i + 1)
         ELSE IF c >= 194 /\ c <= 223 THEN
             IF has(1) /\ IsCont(b[i + 1])
             THEN <<(c - 192) * 64 + (b[i + 1] - 128)>> \o DecodeFrom(b, i + 2)
             ELSE <<REPLACEMENT>> \o DecodeFrom(b, i + 1)
         ELSE IF c >= 224 /\ c <= 239 THEN
             IF ~(has(1) /\ SecondOk(c, b[i + 1]))
             THEN <<REPLACEMENT>> \o DecodeFrom(b, i + 1)
             ELSE IF ~(has(2) /\ IsCont(b[i + 2]))
             THEN <<REPLACEMENT>> \o DecodeFrom(b, i + 2)
             ELSE <<(c - 224) * 4096 + (b[i + 1] - 128) * 64 + (b[i + 2] - 128)>>
                  \o DecodeFrom(b, i + 3)
         ELSE IF c >= 240 /\ c <= 244 THEN
             IF ~(has(1) /\ SecondOk(c, b[i + 1]))
             THEN <<REPLACEMENT>> \o DecodeFrom(b, i + 1)
             ELSE IF ~(has(2) /\ IsCont(b[i + 2]))
             THEN <<REPLACEMENT>> \o DecodeFrom(b, i + 2)
             ELSE IF ~(has(3) /\ IsCont(b[i + 3]))
             THEN <<REPLACEMENT>> \o DecodeFrom(b, i + 3)
             ELSE <<(c - 240) * 262144 + (b[i + 1] - 128) * 4096
                    + (b[i + 2] - 128) * 64 + (b[i + 3] - 128)>>
                  \o DecodeFrom(b, i + 4)
         ELSE <<REPLACEMENT>> \o DecodeFrom(b, i + 1)

decode(b) == DecodeFrom(b, 1)

(***************************************************************************)
(* str.encode('utf-8', errors='replace'): a lone surrogate becomes '?'.    *)
(***************************************************************************)
EncodeChar(c) ==
    IF c < 128 THEN <<c>>
    ELSE IF c < 2048 THEN << 192 + (c \div 64), 128 + (c % 64) >>
    ELSE IF c >= 55296 /\ c <= 57343 THEN <<QUESTION>>
    ELSE IF c < 65536
    THEN << 224 + (c \div 4096), 128 + ((c \div 64) % 64), 128 + (c % 64) >>
    ELSE << 240 + (c \div 262144), 128 + ((c \div 4096) % 64),
           128 + ((c \div 64) % 64), 128 + (c % 64) >>

RECURSIVE EncodeFrom(_, _)
EncodeFrom(s, i) ==
    IF i > Len(s) THEN <<>> ELSE EncodeChar(s[i]) \o EncodeFrom(s, i + 1)

encode(s) == EncodeFrom(s, 1)

(***************************************************************************)
(* Config.TITLE_PATTERNS: five compiled patterns, each                     *)
(*   ESC ] code ; payload terminator   (payload: no BEL, no ESC)          *)
(* in the order of the list.                                               *)
(***************************************************************************)
\* A pattern list that also takes OSC 1 ended by ESC \.
TITLE_PATTERNS_osc1_st ==
    << [code |-> DIGIT0, term |-> "bel"],
       [code |-> DIGIT2, term |-> "bel"],
       [code |-> DIGIT1, term |-> "bel"],
       [code |-> DIGIT0, term |-> "st"],
       [code |-> DIGIT2, term |-> "st"],
       [code |-> DIGIT1, term |-> "st"] >>

\* A pattern list that tries OSC 0 ended by BEL a second time at the end.
TITLE_PATTERNS_repeated ==
    << [code |-> DIGIT0, term |-> "bel"],
       [code |-> DIGIT2, term |-> "bel"],
       [code |-> DIGIT1, term |-> "bel"],
       [code |-> DIGIT0, term |-> "st"],
       [code |-> DIGIT2, term |-> "st"],
       [code |-> DIGIT0, term |-> "bel"] >>

TITLE_PATTERNS ==
    << [code |-> DIGIT0, term |-> "bel"],
       [code |-> DIGIT2, term |-> "bel"],
       [code |-> DIGIT1, term |-> "bel"],
       [code |-> DIGIT0, term |-> "st"],
       [code |-> DIGIT2, term |-> "st"] >>

\* A payload class that forgets ESC.
PayloadByte_noesc(b) == b # BEL

\* The payload class [^\x07\x1b]: the bytes a payload may hold.
PayloadByte(b) == b # BEL /\ b # ESC

\* The first index >= k of a byte outside the payload class, 0 when none.
RECURSIVE FirstStop(_, _)
FirstStop(d, k) ==
    IF k > Len(d) THEN 0
    ELSE IF ~PayloadByte(d[k]) THEN k
    ELSE FirstStop(d, k + 1)

\* A matcher that takes the end of the chunk for the end of a BEL title.
MatchEnd_unterminated(pat, d, i) ==
    IF ~(i + 3 <= Len(d) /\ d[i] = ESC /\ d[i + 1] = RBRACKET
         /\ d[i + 2] = pat.code /\ d[i + 3] = SEMICOLON)
    THEN 0
    ELSE LET j == FirstStop(d, i + 4) IN
         IF j = 0 THEN (IF pat.term = "bel" /\ i + 4 <= Len(d) THEN Len(d) ELSE 0)
         ELSE IF pat.term = "bel" THEN (IF d[j] = BEL THEN j ELSE 0)
         ELSE IF d[j] = ESC /\ j + 1 <= Len(d) /\ d[j + 1] = BACKSLASH
         THEN j + 1
         ELSE 0

\* re match of one pattern anchored at index i: the index of the match's
\* last byte, 0 when the pattern does not match there.  The payload class
\* excludes the first byte of both terminators, so the greedy payload ends
\* at the first BEL or ESC and no backtracking can find another match.
MatchEnd(pat, d, i) ==
    IF ~(i + 3 <= Len(d) /\ d[i] = ESC /\ d[i + 1] = RBRACKET
         /\ d[i + 2] = pat.code /\ d[i + 3] = SEMICOLON)
    THEN 0
    ELSE LET j == FirstStop(d, i + 4) IN
         IF j = 0 THEN 0
         ELSE IF pat.term = "bel" THEN (IF d[j] = BEL THEN j ELSE 0)
         ELSE IF d[j] = ESC /\ j + 1 <= Len(d) /\ d[j + 1] = BACKSLASH
         THEN j + 1
         ELSE 0

\* match.group(1) of a matched sequence m: the bytes between the 4-byte
\* prefix and the terminator.
Group1(m) ==
    IF m[Len(m)] = BEL THEN SubSeq(m, 5, Len(m) - 1)
    ELSE SubSeq(m, 5, Len(m) - 2)

\* A title text that leaves alone a title already ending in the stats.
NewTitle_once(original_title, stats) ==
    LET n == Len(original_title)
        k == Len(stats)
    IN IF n >= k /\ SubSeq(original_title, n - k + 1, n) = stats
       THEN original_title
       ELSE IF original_title # <<>> THEN original_title \o SEPARATOR \o stats
       ELSE stats

\* A title text that puts the separator in front of the stats even when
\* there is no original title.
NewTitle_separator(original_title, stats) ==
    original_title \o SEPARATOR \o stats

\* The title text modify_title_sequence builds (lines 281-285).
NewTitle(original_title, stats) ==
    IF original_title # <<>> THEN original_title \o SEPARATOR \o stats
    ELSE stats

\* A rewriter that always terminates with BEL.
modify_title_sequence_bel(m, stats) ==
    SubSeq(m, 1, 4) \o encode(NewTitle(decode(Group1(m)), stats)) \o <<BEL>>

\* The bytes modify_title_sequence returns for the matched sequence m.
modify_title_sequence(m, stats) ==
    LET original_title == decode(Group1(m))
        new_title == NewTitle(original_title, stats)
        sequence_start == SubSeq(m, 1, 4)
    IN IF m[Len(m)] = BEL
       THEN sequence_start \o encode(new_title) \o <<BEL>>
       ELSE sequence_start \o encode(new_title) \o <<ESC, BACKSLASH>>

\* pattern.sub(callback, data): non-overlapping matches, leftmost first,
\* each replaced by the callback's result; from index i on.
RECURSIVE SubFrom(_, _, _, _)
SubFrom(pat, d, i, stats) ==
    IF i > Len(d) THEN <<>>
    ELSE LET e == MatchEnd(pat, d, i) IN
         IF e > 0
         THEN modify_title_sequence(SubSeq(d, i, e), stats)
              \o SubFrom(pat, d, e + 1, stats)
         ELSE <<d[i]>> \o SubFrom(pat, d, i + 1, stats)

\* The decoded payloads the callback saw during one pattern.sub, in order.
RECURSIVE TitlesFrom(_, _, _)
TitlesFrom(pat, d, i) ==
    IF i > Len(d) THEN <<>>
    ELSE LET e == MatchEnd(pat, d, i) IN
         IF e > 0
         THEN <<decode(Group1(SubSeq(d, i, e)))>> \o TitlesFrom(pat, d, e + 1)
         ELSE TitlesFrom(pat, d, i + 1)

\* data after the first n patterns of the loop of process_output.
RECURSIVE AfterPasses(_, _, _)
AfterPasses(d, stats, n) ==
    IF n = 0 THEN d
    ELSE SubFrom(TITLE_PATTERNS[n], AfterPasses(d, stats, n - 1), 1, stats)

\* process_output(data, stats_text): the five patterns applied in turn.
process_output(d, stats) == AfterPasses(d, stats, Len(TITLE_PATTERNS))

\* Every payload modify_title_sequence was called with during
\* process_output, in call order (pass by pass, left to right in a pass).
RECURSIVE CallbackTitles(_, _, _)
CallbackTitles(d, stats, n) ==
    IF n = 0 THEN <<>>
    ELSE CallbackTitles(d, stats, n - 1)
         \o TitlesFrom(TITLE_PATTERNS[n], AfterPasses(d, stats, n - 1), 1)


(***************************************************************************)
(* Bounds of the model.                                                    *)
(***************************************************************************)
\* A chunk of child output is built from at most this many pieces.
MaxPieces == 4

\* A time.time() value the model starts from: far from 0, as the epoch is.
StartTime == 4

\* SIGINT/SIGTERM deliveries in one session.
MaxSignals == 2

\* Chunks of child output the PTY buffers at a time.
MaxPending == 1

(***************************************************************************)
(* Config: the timing constants, in ticks of half a second.                *)
(***************************************************************************)
TITLE_UPDATE_INTERVAL == 1
TITLE_SUPPRESSION_DURATION == 2
DEFAULT_REFRESH_INTERVAL == 4

(***************************************************************************)
(* The state.                                                              *)
(***************************************************************************)
VARIABLES
    \* the session's fields (Toptle.__init__)
    refresh_interval,        \* self.refresh_interval, in ticks
    last_stats,              \* self.last_stats, text
    running,                 \* self.running
    master_fd,               \* self.master_fd: "None" or "fd"
    original_termios,        \* self.original_termios: "None" or "saved"
    last_title_update,       \* self.last_title_update, a time
    last_title_interception, \* self.last_title_interception, a time
    last_intercepted_title,  \* self.last_intercepted_title, text
    default_title,           \* self.default_title, text
    \* the main thread
    mode,                    \* "none", "pty" (_run_with_pty), "direct"
    pc,                      \* the statement the main thread is at
    exc,                     \* the exception that is propagating, or "none"
    exit_code,               \* the local exit_code of the run function
    try_entered,             \* the run function's try block was entered
    data,                    \* the chunk os.read(master_fd) returned
    modified_data,           \* process_output's result for the chunk
    relay,                   \* where the relay is with the chunk, or what
                             \* select reported of the PTY
    r_titles,                \* payloads modify_title_sequence is yet to see
    r_time,                  \* time.time() as evaluated in line 279
    \* the sampler thread (stats_updater)
    sampler,                 \* the statement the sampler thread is at
    s_time,                  \* current_time of send_proactive_title_update
    s_wake,                  \* when time.sleep(refresh_interval) returns
    \* the environment
    now,                     \* time.time()
    stdin_tty,               \* standard input is a terminal
    stdin_state,             \* "open", "eof" or "error"
    term_mode,               \* mode of the real terminal: "cooked" or "raw"
    winch,                   \* SIGWINCH disposition: "SIG_DFL" or "handler"
    handlers,                \* SIGINT/SIGTERM handlers are installed
    child,                   \* "none", "running", "exited"
    returncode,              \* the child's return code once it exited
    term_requested,          \* process.terminate() signalled the child
    fd_open,                 \* the PTY controlling descriptor is open
    pending,                 \* chunks the child wrote that are not read yet
    unread,                  \* the bytes of child output in the PTY buffer
    term_size,               \* rows and columns of the real terminal
    environ,                 \* LINES and COLUMNS of the environment
    command,                 \* the command line to run, as main parsed it
    pty_input,               \* the chunks written to the PTY, in order
    slave_open,              \* a process holds the PTY's subordinate side
    pty_size,                \* rows and columns of the PTY, <<>> before set
    tty,                     \* what was written to the real terminal
    status,                  \* the program's exit status
    \* history
    sig_log,                 \* the signals delivered, with the state then
    chunks,                  \* the chunks os.read(master_fd) returned
    stamps                   \* the times stored as last_title_interception

sessionVars == <<refresh_interval, last_stats, running, master_fd,
                 original_termios, last_title_update, last_title_interception,
                 last_intercepted_title, default_title>>

mainVars == <<mode, pc, exc, exit_code, try_entered>>

relayVars == <<data, modified_data, relay, r_titles, r_time>>

samplerVars == <<sampler, s_time, s_wake>>

envVars == <<now, stdin_tty, stdin_state, term_mode, winch, handlers, child,
             returncode, term_requested, fd_open, pending, tty, status,
             unread, term_size, environ, command, pty_input, slave_open, pty_size>>

historyVars == <<sig_log, chunks, stamps>>

vars == <<sessionVars, mainVars, relayVars, samplerVars, envVars, historyVars>>

(***************************************************************************)
(* The lifecycle of one invocation: main, run_command, the two run         *)
(* functions with their try/finally, the signal handlers, cleanup.         *)
(***************************************************************************)
\* Config.INTERACTIVE_COMMANDS and Config.NON_INTERACTIVE_COMMANDS.
INTERACTIVE_COMMANDS ==
    {
      <<118, 105, 109>>,  \* vim
      <<118, 105>>,  \* vi
      <<110, 97, 110, 111>>,  \* nano
      <<101, 109, 97, 99, 115>>,  \* emacs
      <<104, 116, 111, 112>>,  \* htop
      <<116, 111, 112>>,  \* top
      <<98, 116, 111, 112>>,  \* btop
      <<97, 116, 111, 112>>,  \* atop
      <<108, 101, 115, 115>>,  \* less
      <<109, 111, 114, 101>>,  \* more
      <<109, 97, 110>>,  \* man
      <<116, 109, 117, 120>>,  \* tmux
      <<115, 99, 114, 101, 101, 110>>,  \* screen
      <<98, 97, 115, 104>>,  \* bash
      <<115, 104>>,  \* sh
      <<122, 115, 104>>,  \* zsh
      <<102, 105, 115, 104>>,  \* fish
      <<112, 121, 116, 104, 111, 110>>,  \* python
      <<112, 121, 116, 104, 111, 110, 51>>,  \* python3
      <<105, 112, 121, 116, 104, 111, 110>>,  \* ipython
      <<110, 111, 100, 101>>,  \* node
      <<105, 114, 98>>,  \* irb
      <<103, 104, 99, 105>>                        \* ghci
    }

NON_INTERACTIVE_COMMANDS ==
    {
      <<115, 108, 101, 101, 112>>,  \* sleep
      <<101, 99, 104, 111>>,  \* echo
      <<99, 97, 116>>,  \* cat
      <<103, 114, 101, 112>>,  \* grep
      <<102, 105, 110, 100>>,  \* find
      <<115, 111, 114, 116>>,  \* sort
      <<109, 97, 107, 101>>,  \* make
      <<103, 99, 99>>,  \* gcc
      <<99, 108, 97, 110, 103>>,  \* clang
      <<99, 97, 114, 103, 111>>,  \* cargo
      <<110, 112, 109>>,  \* npm
      <<112, 105, 112>>,  \* pip
      <<103, 105, 116>>,  \* git
      <<99, 117, 114, 108>>,  \* curl
      <<119, 103, 101, 116>>,  \* wget
      <<116, 97, 114>>,  \* tar
      <<103, 122, 105, 112>>                       \* gzip
    }

\* Config.DEFAULT_TITLE_PREFIX, the turtle glyph, as code points.
DEFAULT_TITLE_PREFIX == <<128034>>

\* Config.TERMINAL_RESET_SEQUENCE: ESC ] 0 ; T e r m i n a l BEL.
TERMINAL_RESET_SEQUENCE ==
    <<ESC, RBRACKET, DIGIT0, SEMICOLON,
      84, 101, 114, 109, 105, 110, 97, 108, BEL>>

\* Config.TITLE_SEQUENCE_FORMAT.format(content), encoded as stdout does.
TITLE_SEQUENCE_FORMAT(content) ==
    <<ESC, RBRACKET, DIGIT0, SEMICOLON>> \o encode(content) \o <<BEL>>

\* str(n) for a natural number, as code points.
RECURSIVE Decimal(_)
Decimal(n) ==
    IF n < 10 THEN <<DIGIT0 + n>>
    ELSE Decimal(n \div 10) \o <<DIGIT0 + (n % 10)>>

\* f"{x:.1f}" for a non-negative value given in tenths.
Fixed1(tenths) == Decimal(tenths \div 10) \o <<46>> \o <<DIGIT0 + (tenths % 10)>>

\* format_stats: f"{prefix} {cpu:.1f}% CPU, {mem:.1f}MB RAM".
format_stats(stats) ==
    DEFAULT_TITLE_PREFIX \o <<SPACE>> \o Fixed1(stats.cpu_percent)
        \o <<37, SPACE, 67, 80, 85, 44, SPACE>>
        \o Fixed1(stats.memory_mb) \o <<77, 66, SPACE, 82, 65, 77>>

\* What get_process_tree_stats returns when the provider raises
\* NoSuchProcess or AccessDenied for the root: enumerating its descendants
\* (lines 221-222), or sampling it, the only process of the tree (lines
\* 212-213).  A root that was sampled has memory, so no other call returns
\* this record.
Unsampled == [cpu_percent |-> 0, memory_mb |-> 0]

\* What get_process_tree_stats can return (values in tenths): the record of
\* a root it could not sample, or the totals of the tree.
Samples ==
    { Unsampled,
      [cpu_percent |-> 125, memory_mb |-> 1024] }

\* Command lines: argv[0] split at "/" into its components, then the
\* other arguments.  vi; sleep 5; usr/bin/sleep; tool.
Commands ==
    { << << <<118, 105>> >> >>,
      << << <<115, 108, 101, 101, 112>> >>, <<53>> >>,
      << << <<117, 115, 114>>, <<98, 105, 110>>, <<115, 108, 101, 101, 112>> >> >>,
      << << <<116, 111, 111, 108>> >> >> }

\* The working directory's last component: w.
Pwd == <<119>>

\* os.path.basename of a path given by its components.
basename(path) == IF path = <<>> THEN <<>> ELSE path[Len(path)]

\* A classification by the first argument as given, its directories kept.
is_likely_interactive_full(cmd) ==
    IF cmd = <<>> THEN FALSE
    ELSE LET cmd_name == cmd[1] IN
         IF cmd_name \in {<<n>> : n \in NON_INTERACTIVE_COMMANDS} THEN FALSE
         ELSE TRUE

\* is_likely_interactive.
is_likely_interactive(cmd) ==
    IF cmd = <<>> THEN FALSE
    ELSE LET cmd_name == basename(cmd[1]) IN
         IF cmd_name \in NON_INTERACTIVE_COMMANDS THEN FALSE
         ELSE IF cmd_name \in INTERACTIVE_COMMANDS THEN TRUE
         ELSE TRUE

\* run_command's default title: f"{pwd}> {command_name}".
DefaultTitle(cmd) == Pwd \o <<62, SPACE>> \o basename(cmd[1])

\* The size get_terminal_size falls back to: 24 rows, 80 columns.
DefaultSize == <<24, 80>>

\* The largest value struct.pack takes for an 'H' field.
MaxUShort == 65535

\* os.environ.get(name, default) through int(): the variable is unset, or
\* holds an integer, or holds text int() rejects.
EnvUnset == [kind |-> "unset", value |-> 0]
EnvInt(n) == [kind |-> "int", value |-> n]
EnvJunk == [kind |-> "junk", value |-> 0]

\* get_terminal_size: the window size of stdin when stdin is a terminal
\* (the default for a size with a zero in it); else LINES and COLUMNS, the
\* default for both when int() rejects either.
get_terminal_size(is_tty, window, env) ==
    IF is_tty
    THEN IF window[1] # 0 /\ window[2] # 0 THEN window ELSE DefaultSize
    ELSE IF env.LINES.kind = "junk" \/ env.COLUMNS.kind = "junk"
         THEN DefaultSize
         ELSE << IF env.LINES.kind = "unset" THEN DefaultSize[1]
                 ELSE env.LINES.value,
                 IF env.COLUMNS.kind = "unset" THEN DefaultSize[2]
                 ELSE env.COLUMNS.value >>

\* struct.pack('HHHH', rows, cols, 0, 0) takes the pair.
Packs(size) == size[1] \in 0..MaxUShort /\ size[2] \in 0..MaxUShort

\* A set_pty_size that hands rows and columns over in the wrong order.
set_pty_size_swapped(is_open, size, current) ==
    IF is_open THEN <<size[2], size[1]>> ELSE current

\* set_pty_size for a pair struct.pack takes: the size of the PTY after
\* it; an OSError of the ioctl (a closed descriptor) is swallowed.
set_pty_size(is_open, size, current) ==
    IF is_open THEN size ELSE current

\* A restore_terminal that leaves the terminal as it finds it.
restore_terminal_unsaved(saved, current) == current

\* A restore_terminal that switches the mode each time it is called.
restore_terminal_toggled(saved, current) ==
    IF saved = "None" THEN current
    ELSE IF current = "raw" THEN "cooked" ELSE "raw"

\* restore_terminal: the mode of the real terminal after it.
restore_terminal(saved, current) ==
    IF saved # "None" THEN "cooked" ELSE current

\* sys.exit(code): the status the operating system reports.
SysExit(code) == code % 256

\* A main that exits with 0 whatever run_command returned.
main_exit_status_zero(e, code) ==
    IF e = "KeyboardInterrupt" THEN 130
    ELSE IF e = "Exception" THEN 1
    ELSE 0

\* A main whose only except clause is the one for Exception.
main_exit_status_interrupted(e, code) ==
    IF e \in {"KeyboardInterrupt", "Exception"} THEN 1
    ELSE code[1] % 256

\* main's try/except: the status for the way run_command ended.
main_exit_status(e, code) ==
    IF e = "KeyboardInterrupt" THEN 130
    ELSE IF e = "Exception" THEN 1
    ELSE SysExit(code[1])

\* The statements of the run functions that their try block encloses.
TryBody ==
    {"pty_spawn", "pty_psutil", "pty_stats", "pty_thread", "pty_close_slave",
     "pty_handlers", "pty_loop", "pty_select", "pty_in", "pty_out",
     "pty_poll", "pty_stop", "pty_wait",
     "direct_spawn", "direct_psutil", "direct_thread", "direct_wait"}

\* The statements of the relay loop, which catches KeyboardInterrupt.
RelayLoop == {"pty_loop", "pty_select", "pty_in", "pty_out", "pty_poll"}

\* Where the main thread is once an exception leaves statement p.
Raised(p) == IF p \in TryBody THEN "finally" ELSE "main_exit"

\* The program has neither exited nor been killed.
Alive == pc \notin {"exited", "killed"}

\* The number of title reset sequences on the real terminal.
ResetCount == Cardinality({i \in DOMAIN tty : tty[i].kind = "reset"})

\* The command line of the sessions that start in the relay loop: vi.
ViCommand == << << <<118, 105>> >> >>
(***************************************************************************)
(* The rewriter on its own: one chunk of child output and one stats text,  *)
(* drawn from bounded sets, passed through process_output the way the      *)
(* relay loop does it (lines 437-442).                                     *)
(***************************************************************************)
\* The pieces chunks are built from: the prefixes of OSC 0, 2, 1 and of an
\* OSC code that is no title (3), both terminators, and payload bytes (an
\* ASCII letter, and a byte that is invalid in UTF-8).
Pieces ==
    { <<ESC, RBRACKET, DIGIT0, SEMICOLON>>,
      <<ESC, RBRACKET, DIGIT2, SEMICOLON>>,
      <<ESC, RBRACKET, DIGIT1, SEMICOLON>>,
      <<ESC, RBRACKET, 51, SEMICOLON>>,
      <<BEL>>,
      <<ESC, BACKSLASH>>,
      <<97>>,
      <<255>> }

RECURSIVE ChunksOf(_)
ChunksOf(n) ==
    IF n = 0 THEN {<<>>}
    ELSE LET prev == ChunksOf(n - 1)
         IN prev \cup {c \o p : c \in prev, p \in Pieces}

Chunks == ChunksOf(MaxPieces) \ {<<>>}

\* Stats texts without BEL or ESC ("S", and a turtle prefix with a digit).
CleanStats == { <<83>>, <<128034, SPACE, DIGIT1>> }

\* Stats texts whose prefix carries delimiter bytes (--prefix is free text).
DirtyStats == { <<ESC, RBRACKET, DIGIT1, SEMICOLON, 83>> }

StatsTexts == CleanStats \cup DirtyStats

\* The session, the main thread and the environment as they are while the
\* PTY relay loop runs (after line 418): the terminal raw, the handlers
\* installed, the child alive, the relay waiting in select.
PtyRunning ==
    /\ running = TRUE
    /\ master_fd = "fd"
    /\ original_termios = "saved"
    /\ last_title_update = 0
    /\ mode = "pty"
    /\ pc = "pty_select"
    /\ exc = "none"
    /\ exit_code = <<>>
    /\ try_entered = TRUE
    /\ stdin_tty = TRUE
    /\ stdin_state = "open"
    /\ term_mode = "raw"
    /\ winch = "handler"
    /\ handlers = TRUE
    /\ child = "running"
    /\ returncode = <<>>
    /\ term_requested = FALSE
    /\ fd_open = TRUE
    /\ pending = 0
    /\ tty = <<>>
    /\ status = <<>>
    /\ sig_log = <<>>
    /\ command = ViCommand
    /\ term_size = DefaultSize
    /\ environ = [LINES |-> EnvUnset, COLUMNS |-> EnvUnset]
    /\ pty_input = <<>>
    /\ slave_open = TRUE
    /\ pty_size = DefaultSize

InitRewrite ==
    /\ PtyRunning
    /\ refresh_interval = DEFAULT_REFRESH_INTERVAL
    /\ last_stats \in StatsTexts
    /\ data \in Chunks
    /\ default_title = DefaultTitle(ViCommand)
    /\ last_intercepted_title = <<>>
    /\ last_title_interception = 0
    /\ modified_data = <<>>
    /\ relay = "read"
    /\ r_titles = <<>>
    /\ r_time = 0
    /\ sampler = "none"
    /\ s_time = 0
    /\ s_wake = 0
    /\ now = StartTime
    /\ stamps = {}
    /\ chunks = <<data>>
    /\ unread = <<>>

\* Lines 438-440 for one chunk: process_output runs, and every call of
\* modify_title_sequence stores the title and stamps the interception.
RewriteChunk ==
    /\ relay = "read"
    /\ LET titles == CallbackTitles(data, last_stats, Len(TITLE_PATTERNS)) IN
       /\ modified_data' = process_output(data, last_stats)
       /\ IF titles = <<>>
          THEN UNCHANGED <<last_intercepted_title, last_title_interception,
                           stamps>>
          ELSE /\ last_intercepted_title' = titles[Len(titles)]
               /\ last_title_interception' = now
               /\ stamps' = stamps \cup {now}
    /\ relay' = "rewritten"
    /\ UNCHANGED <<refresh_interval, last_stats, running, master_fd,
                   original_termios, last_title_update, default_title>>
    /\ UNCHANGED <<mainVars, data, r_titles, r_time, samplerVars, envVars,
                   sig_log, chunks>>

NextRewrite == RewriteChunk

SpecRewrite == InitRewrite /\ [][NextRewrite]_vars



\* Exit codes the child returns of its own accord.
ExitCodes == {0, 7}

\* The return code of a child that SIGTERM killed.
KilledBySigterm == -15

\* The chunks the relay reads in a session: plain text, a title sequence.
RelayChunks == {<<97>>, <<ESC, RBRACKET, DIGIT0, SEMICOLON, 97, BEL>>}

\* Chunks the child writes to its terminal in one session.
MaxOutput == 1

Init ==
    /\ refresh_interval = DEFAULT_REFRESH_INTERVAL
    /\ last_stats = <<>>
    /\ running = TRUE
    /\ master_fd = "None"
    /\ original_termios = "None"
    /\ last_title_update = 0
    /\ last_title_interception = 0
    /\ last_intercepted_title = <<>>
    /\ default_title = <<>>
    /\ mode = "none"
    /\ pc = "run_command"
    /\ exc = "none"
    /\ exit_code = <<>>
    /\ try_entered = FALSE
    /\ data = <<>>
    /\ modified_data = <<>>
    /\ relay = "read"
    /\ r_titles = <<>>
    /\ r_time = 0
    /\ sampler = "none"
    /\ s_time = 0
    /\ s_wake = 0
    /\ now = StartTime
    /\ stdin_tty \in BOOLEAN
    /\ stdin_state = "open"
    /\ term_mode = "cooked"
    /\ winch = "SIG_DFL"
    /\ handlers = FALSE
    /\ child = "none"
    /\ returncode = <<>>
    /\ term_requested = FALSE
    /\ fd_open = FALSE
    /\ pending = 0
    /\ tty = <<>>
    /\ status = <<>>
    /\ sig_log = <<>>
    /\ chunks = <<>>
    /\ unread = <<>>
    /\ term_size = DefaultSize
    /\ environ = [LINES |-> EnvUnset, COLUMNS |-> EnvUnset]
    /\ pty_input = <<>>
    /\ slave_open = FALSE
    /\ pty_size = <<>>
    /\ command \in Commands
    /\ stamps = {}

\* run_command, up to the call of the run function it chooses; _run_direct's
\* try block starts with its first statement that matters.
RunCommand ==
    /\ pc = "run_command"
    /\ default_title' = DefaultTitle(command)
    /\ IF is_likely_interactive(command)
       THEN mode' = "pty" /\ pc' = "pty_open" /\ UNCHANGED try_entered
       ELSE mode' = "direct" /\ pc' = "direct_spawn" /\ try_entered' = TRUE
    /\ UNCHANGED <<refresh_interval, last_stats, running, master_fd,
                   original_termios, last_title_update,
                   last_title_interception, last_intercepted_title>>
    /\ UNCHANGED <<exc, exit_code, relayVars, samplerVars, envVars, historyVars>>

\* _run_with_pty: pty.openpty() and self.master_fd = master_fd.
PtyOpen ==
    /\ pc = "pty_open"
    /\ master_fd' = "fd"
    /\ fd_open' = TRUE
    /\ pc' = "pty_size"
    /\ UNCHANGED <<refresh_interval, last_stats, running, original_termios,
                   last_title_update, last_title_interception,
                   last_intercepted_title, default_title>>
    /\ UNCHANGED <<mode, exc, exit_code, try_entered, relayVars, samplerVars,
                   historyVars>>
    /\ UNCHANGED <<now, stdin_tty, stdin_state, term_mode, winch, handlers,
                   child, returncode, term_requested, pending, tty, status,
                   unread, term_size, environ, command, pty_input, slave_open, pty_size>>

\* _run_with_pty: get_terminal_size and set_pty_size (lines 385-386); a
\* size struct.pack rejects raises struct.error, which nothing catches.
PtySize ==
    /\ pc = "pty_size"
    /\ LET size == get_terminal_size(stdin_tty, term_size, environ) IN
         IF Packs(size)
         THEN /\ pty_size' = set_pty_size(fd_open, size, pty_size)
              /\ pc' = "pty_raw"
              /\ UNCHANGED exc
         ELSE /\ exc' = "Exception"
              /\ pc' = Raised(pc)
              /\ UNCHANGED pty_size
    /\ UNCHANGED <<sessionVars, mode, exit_code, try_entered, relayVars,
                   samplerVars, historyVars>>
    /\ UNCHANGED <<now, stdin_tty, stdin_state, term_mode, winch, handlers,
                   child, returncode, term_requested, fd_open, pending, tty,
                   status, unread, term_size, environ, command, pty_input, slave_open>>

\* setup_raw_terminal: tcgetattr fails when stdin is no terminal.
PtyRaw ==
    /\ pc = "pty_raw"
    /\ IF stdin_tty
       THEN original_termios' = "saved" /\ term_mode' = "raw"
       ELSE UNCHANGED <<original_termios, term_mode>>
    /\ pc' = "pty_winch"
    /\ UNCHANGED <<refresh_interval, last_stats, running, master_fd,
                   last_title_update, last_title_interception,
                   last_intercepted_title, default_title>>
    /\ UNCHANGED <<mode, exc, exit_code, try_entered, relayVars, samplerVars,
                   historyVars>>
    /\ UNCHANGED <<now, stdin_tty, stdin_state, winch, handlers, child,
                   returncode, term_requested, fd_open, pending, tty, status,
                   unread, term_size, environ, command, pty_input, slave_open, pty_size>>

\* signal.signal(SIGWINCH, handle_window_size_change); the try block follows.
PtyWinch ==
    /\ pc = "pty_winch"
    /\ winch' = "handler"
    /\ try_entered' = TRUE
    /\ pc' = "pty_spawn"
    /\ UNCHANGED <<sessionVars, mode, exc, exit_code, relayVars, samplerVars,
                   historyVars>>
    /\ UNCHANGED <<now, stdin_tty, stdin_state, term_mode, handlers, child,
                   returncode, term_requested, fd_open, pending, tty, status,
                   unread, term_size, environ, command, pty_input, slave_open, pty_size>>

\* subprocess.Popen in either run function; it raises when it cannot spawn.
Spawn ==
    /\ pc \in {"pty_spawn", "direct_spawn"}
    /\ \E ok \in BOOLEAN :
         IF ok
         THEN /\ child' = "running"
              /\ slave_open' = (mode = "pty")
              /\ pc' = IF mode = "pty" THEN "pty_psutil" ELSE "direct_psutil"
              /\ UNCHANGED exc
         ELSE /\ exc' = "Exception"
              /\ pc' = Raised(pc)
              /\ UNCHANGED <<child, slave_open>>
    /\ UNCHANGED <<sessionVars, mode, exit_code, try_entered, relayVars,
                   samplerVars, historyVars>>
    /\ UNCHANGED <<now, stdin_tty, stdin_state, term_mode, winch, handlers,
                   returncode, term_requested, fd_open, pending, tty, status,
                   unread, term_size, environ, command, pty_input, pty_size>>

\* self.main_process = psutil.Process(process.pid).
PsutilHandle ==
    /\ pc \in {"pty_psutil", "direct_psutil"}
    /\ pc' = IF mode = "pty" THEN "pty_stats" ELSE "direct_thread"
    /\ UNCHANGED <<sessionVars, mode, exc, exit_code, try_entered, relayVars,
                   samplerVars, envVars, historyVars>>

\* A start that leaves out the initial sample.
PtyInitialStats_skipped ==
    /\ pc = "pty_stats"
    /\ pc' = "pty_thread"
    /\ UNCHANGED <<sessionVars, mode, exc, exit_code, try_entered, relayVars,
                   samplerVars, envVars, historyVars>>

\* _run_with_pty: the initial sample, formatted into last_stats.
PtyInitialStats ==
    /\ pc = "pty_stats"
    /\ \E stats \in Samples : last_stats' = format_stats(stats)
    /\ pc' = "pty_thread"
    /\ UNCHANGED <<refresh_interval, running, master_fd, original_termios,
                   last_title_update, last_title_interception,
                   last_intercepted_title, default_title>>
    /\ UNCHANGED <<mode, exc, exit_code, try_entered, relayVars, samplerVars,
                   envVars, historyVars>>

\* threading.Thread(target=self.stats_updater, daemon=True).start().
StartSampler ==
    /\ pc \in {"pty_thread", "direct_thread"}
    /\ sampler' = "loop"
    /\ pc' = IF mode = "pty" THEN "pty_close_slave" ELSE "direct_wait"
    /\ UNCHANGED <<sessionVars, mode, exc, exit_code, try_entered, relayVars,
                   s_time, s_wake, envVars, historyVars>>

\* os.close(slave_fd).
PtyCloseSlave ==
    /\ pc = "pty_close_slave"
    /\ pc' = "pty_handlers"
    /\ UNCHANGED <<sessionVars, mode, exc, exit_code, try_entered, relayVars,
                   samplerVars, envVars, historyVars>>

\* _setup_signal_handlers: SIGINT and SIGTERM go to signal_handler.
PtySetupHandlers ==
    /\ pc = "pty_handlers"
    /\ handlers' = TRUE
    /\ pc' = "pty_loop"
    /\ UNCHANGED <<sessionVars, mode, exc, exit_code, try_entered, relayVars,
                   samplerVars, historyVars>>
    /\ UNCHANGED <<now, stdin_tty, stdin_state, term_mode, winch, child,
                   returncode, term_requested, fd_open, pending, tty, status,
                   unread, term_size, environ, command, pty_input, slave_open, pty_size>>

\* while self.running.
PtyLoopTest ==
    /\ pc = "pty_loop"
    /\ pc' = IF running THEN "pty_select" ELSE "pty_stop"
    /\ UNCHANGED <<sessionVars, mode, exc, exit_code, try_entered, relayVars,
                   samplerVars, envVars, historyVars>>

\* What select reports for standard input: nothing or bytes to read while
\* it is open, end of input (a read of zero bytes) from then on, or a read
\* that raises OSError once the descriptor has failed.
StdinEvents ==
    IF stdin_state = "eof" THEN {"eof"}
    ELSE IF stdin_state = "error" THEN {"error"}
    ELSE {"none", "data"}

\* What select reports for the PTY: buffered child output first; once no
\* process holds the subordinate side the descriptor hangs up, and the read
\* returns zero bytes or raises OSError (EIO).
MasterEvents ==
    IF pending > 0 THEN {"data"}
    ELSE IF ~slave_open THEN {"eof", "error"}
    ELSE {"none"}

\* One cycle of the relay loop: select, the input branch, the output branch
\* (process_output with the callback's stores, the write), the poll.
PtyCycle ==
    /\ pc = "pty_select"
    /\ \E in_ev \in StdinEvents, out_ev \in MasterEvents, chunk \in RelayChunks :
         LET reads == in_ev # "error" /\ out_ev = "data"
             titles == CallbackTitles(chunk, last_stats, Len(TITLE_PATTERNS))
             stop == \/ in_ev = "error"
                     \/ out_ev \in {"eof", "error"}
                     \/ in_ev = "none" /\ out_ev = "none" /\ child = "exited"
         IN
         /\ IF reads
            THEN /\ data' = chunk
                 /\ chunks' = Append(chunks, chunk)
                 /\ modified_data' = process_output(chunk, last_stats)
                 /\ pending' = pending - 1
                 /\ tty' = Append(tty, [kind |-> "child",
                                        bytes |-> process_output(chunk, last_stats),
                                        time |-> now])
                 /\ IF titles = <<>>
                    THEN UNCHANGED <<last_intercepted_title,
                                     last_title_interception, stamps>>
                    ELSE /\ last_intercepted_title' = titles[Len(titles)]
                         /\ last_title_interception' = now
                         /\ stamps' = stamps \cup {now}
            ELSE UNCHANGED <<data, modified_data, pending, tty,
                             last_intercepted_title, last_title_interception,
                             stamps, chunks>>
         /\ pc' = IF stop THEN "pty_stop" ELSE "pty_loop"
    /\ UNCHANGED <<refresh_interval, last_stats, running, master_fd,
                   original_termios, last_title_update, default_title>>
    /\ UNCHANGED <<mode, exc, exit_code, try_entered, relay, r_titles, r_time,
                   samplerVars, sig_log>>
    /\ UNCHANGED <<now, stdin_tty, stdin_state, term_mode, winch, handlers,
                   child, returncode, term_requested, fd_open, status,
                   unread, term_size, environ, command, pty_input, slave_open, pty_size>>

\* An end of the loop that sets the running flag again.
PtyStop_rearmed ==
    /\ pc = "pty_stop"
    /\ running' = TRUE
    /\ pc' = "pty_wait"
    /\ UNCHANGED <<refresh_interval, last_stats, master_fd, original_termios,
                   last_title_update, last_title_interception,
                   last_intercepted_title, default_title>>
    /\ UNCHANGED <<mode, exc, exit_code, try_entered, relayVars, samplerVars,
                   envVars, historyVars>>

\* _run_with_pty after the loop: self.running = False.
PtyStop ==
    /\ pc = "pty_stop"
    /\ running' = FALSE
    /\ pc' = "pty_wait"
    /\ UNCHANGED <<refresh_interval, last_stats, master_fd, original_termios,
                   last_title_update, last_title_interception,
                   last_intercepted_title, default_title>>
    /\ UNCHANGED <<mode, exc, exit_code, try_entered, relayVars, samplerVars,
                   envVars, historyVars>>

\* exit_code = process.wait(), the completion message, return exit_code.
Wait ==
    /\ pc \in {"pty_wait", "direct_wait"}
    /\ child = "exited"
    /\ exit_code' = returncode
    /\ pc' = "finally"
    /\ UNCHANGED <<sessionVars, mode, exc, try_entered, relayVars, samplerVars,
                   envVars, historyVars>>

\* The finally clause of either run function: _cleanup_resources, with
\* master_fd and reset_signals=True in PTY mode.  Its system calls are taken
\* to succeed.
Cleanup ==
    /\ pc = "finally"
    /\ running' = FALSE
    /\ winch' = IF mode = "pty" THEN "SIG_DFL" ELSE winch
    /\ term_mode' = restore_terminal(original_termios, term_mode)
    /\ fd_open' = IF mode = "pty" THEN FALSE ELSE fd_open
    /\ tty' = Append(tty, [kind |-> "reset", bytes |-> TERMINAL_RESET_SEQUENCE,
                           time |-> now])
    /\ master_fd' = "None"
    /\ pc' = "main_exit"
    /\ UNCHANGED <<refresh_interval, last_stats, original_termios,
                   last_title_update, last_title_interception,
                   last_intercepted_title, default_title>>
    /\ UNCHANGED <<mode, exc, exit_code, try_entered, relayVars, samplerVars,
                   historyVars>>
    /\ UNCHANGED <<now, stdin_tty, stdin_state, handlers, child, returncode,
                   term_requested, pending, status,
                   unread, term_size, environ, command, pty_input, slave_open, pty_size>>

\* main: sys.exit(exit_code), or the except clause for what propagated.
MainExit ==
    /\ pc = "main_exit"
    /\ status' = <<main_exit_status(exc, exit_code)>>
    /\ pc' = "exited"
    /\ UNCHANGED <<sessionVars, mode, exc, exit_code, try_entered, relayVars,
                   samplerVars, historyVars>>
    /\ UNCHANGED <<now, stdin_tty, stdin_state, term_mode, winch, handlers,
                   child, returncode, term_requested, fd_open, pending, tty,
                   unread, term_size, environ, command, pty_input, slave_open, pty_size>>

\* Delivery of SIGINT or SIGTERM to the program.  With signal_handler
\* installed it runs; otherwise SIGINT raises KeyboardInterrupt in the main
\* thread (the relay loop catches it) and SIGTERM ends the process at once.
Deliver(sig) ==
    /\ Alive
    /\ Len(sig_log) < MaxSignals
    /\ sig_log' = Append(sig_log, [sig |-> sig, at |-> pc, mode |-> mode,
                                   child |-> child,
                                   raw |-> (term_mode = "raw"),
                                   handled |-> handlers])
    /\ IF handlers
       THEN /\ running' = FALSE
            /\ term_requested' = (term_requested \/ child = "running")
            /\ UNCHANGED <<pc, exc, status>>
       ELSE IF sig = "SIGINT"
       THEN /\ IF pc \in RelayLoop
               THEN pc' = "pty_stop" /\ UNCHANGED exc
               ELSE pc' = Raised(pc) /\ exc' = "KeyboardInterrupt"
            /\ UNCHANGED <<running, term_requested, status>>
       ELSE /\ pc' = "killed"
            /\ status' = <<128 + 15>>
            /\ UNCHANGED <<running, term_requested, exc>>
    /\ UNCHANGED <<refresh_interval, last_stats, master_fd, original_termios,
                   last_title_update, last_title_interception,
                   last_intercepted_title, default_title>>
    /\ UNCHANGED <<mode, exit_code, try_entered, relayVars, samplerVars,
                   stamps, chunks>>
    /\ UNCHANGED <<now, stdin_tty, stdin_state, term_mode, winch, handlers,
                   child, returncode, fd_open, pending, tty,
                   unread, term_size, environ, command, pty_input, slave_open, pty_size>>

Sigint == Deliver("SIGINT")

Sigterm == Deliver("SIGTERM")

\* The child ends: of its own accord, or by the SIGTERM terminate() sent.
\* Its side of the PTY closes with it, unless a descendant it left behind
\* still holds that side open.
ChildExit ==
    /\ Alive
    /\ child = "running"
    /\ \E c \in ExitCodes \cup (IF term_requested THEN {KilledBySigterm} ELSE {}) :
         returncode' = <<c>>
    /\ child' = "exited"
    /\ slave_open' \in (IF mode = "pty" THEN BOOLEAN ELSE {slave_open})
    /\ UNCHANGED <<sessionVars, mainVars, relayVars, samplerVars, historyVars>>
    /\ UNCHANGED <<now, stdin_tty, stdin_state, term_mode, winch, handlers,
                   term_requested, fd_open, pending, tty, status,
                   unread, term_size, environ, command, pty_input, pty_size>>

\* The child writes a chunk to its terminal, the PTY's subordinate side.
ChildWrite ==
    /\ Alive
    /\ mode = "pty"
    /\ child = "running"
    /\ pending < MaxPending
    /\ Len(tty) + pending < MaxOutput
    /\ pending' = pending + 1
    /\ UNCHANGED <<sessionVars, mainVars, relayVars, samplerVars, historyVars>>
    /\ UNCHANGED <<now, stdin_tty, stdin_state, term_mode, winch, handlers,
                   child, returncode, term_requested, fd_open, tty, status,
                   unread, term_size, environ, command, pty_input, slave_open, pty_size>>

\* Standard input reaches its end.
StdinClose ==
    /\ Alive
    /\ stdin_state = "open"
    /\ stdin_state' = "eof"
    /\ UNCHANGED <<sessionVars, mainVars, relayVars, samplerVars, historyVars>>
    /\ UNCHANGED <<now, stdin_tty, term_mode, winch, handlers, child,
                   returncode, term_requested, fd_open, pending, tty, status,
                   unread, term_size, environ, command, pty_input, slave_open, pty_size>>

\* Standard input fails: from now on a read of it raises OSError (EIO).
StdinFail ==
    /\ Alive
    /\ stdin_state = "open"
    /\ stdin_state' = "error"
    /\ UNCHANGED <<sessionVars, mainVars, relayVars, samplerVars, historyVars>>
    /\ UNCHANGED <<now, stdin_tty, term_mode, winch, handlers, child,
                   returncode, term_requested, fd_open, pending, tty, status,
                   unread, term_size, environ, command, pty_input, slave_open, pty_size>>

Next ==
    \/ RunCommand \/ PtyOpen \/ PtySize \/ PtyRaw \/ PtyWinch
    \/ Spawn \/ PsutilHandle \/ PtyInitialStats \/ StartSampler
    \/ PtyCloseSlave \/ PtySetupHandlers \/ PtyLoopTest \/ PtyCycle
    \/ PtyStop \/ Wait \/ Cleanup \/ MainExit
    \/ Sigint \/ Sigterm \/ ChildExit \/ ChildWrite \/ StdinClose
    \/ StdinFail

Spec == Init /\ [][Next]_vars

(***************************************************************************)
(* The relay loop and the sampler thread side by side, statement by        *)
(* statement where they touch the fields they share.                       *)
(***************************************************************************)
\* The clock stops here.
MaxTime == 7

\* Chunks of child output the relay reads in one session of SpecTitle.
MaxChunks == 1

\* The refresh interval of these sessions: --interval 1, in ticks.
TitleInterval == 2

\* The chunks of child output on the real terminal.
ChildCount == Cardinality({i \in DOMAIN tty : tty[i].kind = "child"})

\* The chunks the child writes: text, a title, an empty title, two titles.
TitleChunks ==
    { <<97>>,
      <<ESC, RBRACKET, DIGIT0, SEMICOLON, 97, BEL>>,
      <<ESC, RBRACKET, DIGIT0, SEMICOLON, BEL>>,
      <<ESC, RBRACKET, DIGIT2, SEMICOLON, 98, ESC, BACKSLASH,
        ESC, RBRACKET, DIGIT0, SEMICOLON, 97, BEL>> }

\* A send_proactive_title_update that never uses the intercepted title.
title_content_default(title, default, stats) ==
    IF default # <<>> THEN default \o SEPARATOR \o stats ELSE stats

\* A send_proactive_title_update that pushes the stats text alone.
title_content_bare(title, default, stats) == stats

\* send_proactive_title_update, lines 159-164: the content of the title.
title_content(title, default, stats) ==
    IF title # <<>> THEN title \o SEPARATOR \o stats
    ELSE IF default # <<>> THEN default \o SEPARATOR \o stats
    ELSE stats

InitTitle ==
    /\ PtyRunning
    /\ refresh_interval = TitleInterval
    /\ \E stats \in Samples : last_stats = format_stats(stats)
    /\ default_title = DefaultTitle(ViCommand)
    /\ last_intercepted_title = <<>>
    /\ last_title_interception = 0
    /\ data = <<>>
    /\ modified_data = <<>>
    /\ relay = "select"
    /\ r_titles = <<>>
    /\ r_time = 0
    /\ sampler = "loop"
    /\ s_time = 0
    /\ s_wake = 0
    /\ now = StartTime
    /\ stamps = {}
    /\ chunks = <<>>
    /\ unread = <<>>

\* time.time() moves on.
Tick ==
    /\ now < MaxTime
    /\ now' = now + 1
    /\ UNCHANGED <<sessionVars, mainVars, relayVars, samplerVars, historyVars>>
    /\ UNCHANGED <<stdin_tty, stdin_state, term_mode, winch, handlers, child,
                   returncode, term_requested, fd_open, pending, tty, status,
                   unread, term_size, environ, command, pty_input, slave_open, pty_size>>

\* The relay reads a chunk and calls process_output(data, self.last_stats):
\* the callbacks will see these payloads, in this order.
RelayRead ==
    /\ pc = "pty_select"
    /\ relay = "select"
    /\ running
    /\ child = "running"
    /\ ChildCount < MaxChunks
    /\ \E chunk \in TitleChunks :
         LET titles == CallbackTitles(chunk, last_stats, Len(TITLE_PATTERNS)) IN
         /\ data' = chunk
         /\ chunks' = Append(chunks, chunk)
         /\ modified_data' = process_output(chunk, last_stats)
         /\ r_titles' = titles
         /\ relay' = IF titles = <<>> THEN "write" ELSE "store_title"
    /\ UNCHANGED <<sessionVars, mainVars, r_time, samplerVars, envVars,
                   sig_log, stamps>>

\* modify_title_sequence, line 276: self.last_intercepted_title = ...
RelayStoreTitle ==
    /\ relay = "store_title"
    /\ last_intercepted_title' = Head(r_titles)
    /\ relay' = "read_clock"
    /\ UNCHANGED <<refresh_interval, last_stats, running, master_fd,
                   original_termios, last_title_update,
                   last_title_interception, default_title>>
    /\ UNCHANGED <<mainVars, data, modified_data, r_titles, r_time,
                   samplerVars, envVars, historyVars>>

\* modify_title_sequence, line 279, right-hand side: time.time() is called.
RelayReadClock ==
    /\ relay = "read_clock"
    /\ r_time' = now
    /\ relay' = "store_stamp"
    /\ UNCHANGED <<sessionVars, mainVars, data, modified_data, r_titles,
                   samplerVars, envVars, historyVars>>

\* A callback that returns without storing the interception timestamp.
RelayStoreStamp_skipped ==
    /\ relay = "store_stamp"
    /\ r_titles' = Tail(r_titles)
    /\ relay' = IF Tail(r_titles) = <<>> THEN "write" ELSE "store_title"
    /\ UNCHANGED <<sessionVars, mainVars, data, modified_data, r_time,
                   samplerVars, envVars, historyVars>>

\* modify_title_sequence, line 279, the store into last_title_interception;
\* the callback returns and the next match, if any, is handled.
RelayStoreStamp ==
    /\ relay = "store_stamp"
    /\ last_title_interception' = r_time
    /\ stamps' = stamps \cup {r_time}
    /\ r_titles' = Tail(r_titles)
    /\ relay' = IF Tail(r_titles) = <<>> THEN "write" ELSE "store_title"
    /\ UNCHANGED <<refresh_interval, last_stats, running, master_fd,
                   original_termios, last_title_update,
                   last_intercepted_title, default_title>>
    /\ UNCHANGED <<mainVars, data, modified_data, r_time, samplerVars,
                   envVars, sig_log, chunks>>

\* _run_with_pty, lines 441-442: the rewritten chunk goes to the terminal.
RelayWrite ==
    /\ relay = "write"
    /\ tty' = Append(tty, [kind |-> "child", bytes |-> modified_data,
                           time |-> now])
    /\ relay' = "select"
    /\ UNCHANGED <<sessionVars, mainVars, data, modified_data, r_titles,
                   r_time, samplerVars, historyVars>>
    /\ UNCHANGED <<now, stdin_tty, stdin_state, term_mode, winch, handlers,
                   child, returncode, term_requested, fd_open, pending, status,
                   unread, term_size, environ, command, pty_input, slave_open, pty_size>>

\* The relay loop ends once the child is gone: self.running = False.
RelayStop ==
    /\ pc = "pty_select"
    /\ relay = "select"
    /\ child = "exited"
    /\ running' = FALSE
    /\ pc' = "pty_wait"
    /\ UNCHANGED <<refresh_interval, last_stats, master_fd, original_termios,
                   last_title_update, last_title_interception,
                   last_intercepted_title, default_title>>
    /\ UNCHANGED <<mode, exc, exit_code, try_entered, relayVars, samplerVars,
                   envVars, historyVars>>

\* The child ends while the relay and the sampler run.
TitleChildExit ==
    /\ child = "running"
    /\ relay = "select"
    /\ \E c \in ExitCodes : returncode' = <<c>>
    /\ child' = "exited"
    /\ UNCHANGED <<sessionVars, mainVars, relayVars, samplerVars, historyVars>>
    /\ UNCHANGED <<now, stdin_tty, stdin_state, term_mode, winch, handlers,
                   term_requested, fd_open, pending, tty, status,
                   unread, term_size, environ, command, pty_input, slave_open, pty_size>>

\* A sampler loop that never looks at the running flag.
SamplerLoop_unconditional ==
    /\ Alive
    /\ sampler = "loop"
    /\ sampler' = "sample"
    /\ UNCHANGED <<sessionVars, mainVars, relayVars, s_time, s_wake, envVars,
                   historyVars>>

\* stats_updater, line 307: while self.running and self.main_process.
SamplerLoop ==
    /\ Alive
    /\ sampler = "loop"
    /\ sampler' = IF running THEN "sample" ELSE "done"
    /\ UNCHANGED <<sessionVars, mainVars, relayVars, s_time, s_wake, envVars,
                   historyVars>>

\* A sampler that tries again at its next tick when the root is not running.
SamplerSample_retry ==
    /\ Alive
    /\ sampler = "sample"
    /\ \E is_running \in (IF child = "running" THEN {TRUE} ELSE BOOLEAN),
          stats \in Samples :
         IF is_running
         THEN last_stats' = format_stats(stats) /\ sampler' = "push_clock"
         ELSE UNCHANGED last_stats /\ sampler' = "sleep"
    /\ UNCHANGED <<refresh_interval, running, master_fd, original_termios,
                   last_title_update, last_title_interception,
                   last_intercepted_title, default_title>>
    /\ UNCHANGED <<mainVars, relayVars, s_time, s_wake, envVars, historyVars>>

\* stats_updater, lines 309-311 and 315-316: is_running() is true while
\* the child runs and may be either once it is a zombie; a running root is
\* sampled and the formatted text stored.
SamplerSample ==
    /\ Alive
    /\ sampler = "sample"
    /\ \E is_running \in (IF child = "running" THEN {TRUE} ELSE BOOLEAN),
          stats \in Samples :
         IF is_running
         THEN last_stats' = format_stats(stats) /\ sampler' = "push_clock"
         ELSE UNCHANGED last_stats /\ sampler' = "done"
    /\ UNCHANGED <<refresh_interval, running, master_fd, original_termios,
                   last_title_update, last_title_interception,
                   last_intercepted_title, default_title>>
    /\ UNCHANGED <<mainVars, relayVars, s_time, s_wake, envVars, historyVars>>

\* send_proactive_title_update, lines 148-149: current_time = time.time().
PushClock ==
    /\ Alive
    /\ sampler = "push_clock"
    /\ IF last_stats # <<>>
       THEN s_time' = now /\ sampler' = "push_check"
       ELSE UNCHANGED s_time /\ sampler' = "sleep"
    /\ UNCHANGED <<sessionVars, mainVars, relayVars, s_wake, envVars,
                   historyVars>>

\* Tests that leave out the minimum interval between two pushes.
PushCheck_unspaced ==
    /\ Alive
    /\ sampler = "push_check"
    /\ sampler' =
         IF s_time - last_title_interception < TITLE_SUPPRESSION_DURATION
         THEN "sleep"
         ELSE "push_write"
    /\ UNCHANGED <<sessionVars, mainVars, relayVars, s_time, s_wake, envVars,
                   historyVars>>

\* send_proactive_title_update, lines 153-157: the two tests.
PushCheck ==
    /\ Alive
    /\ sampler = "push_check"
    /\ sampler' =
         IF s_time - last_title_interception < TITLE_SUPPRESSION_DURATION
         THEN "sleep"
         ELSE IF s_time - last_title_update >= TITLE_UPDATE_INTERVAL
         THEN "push_write"
         ELSE "sleep"
    /\ UNCHANGED <<sessionVars, mainVars, relayVars, s_time, s_wake, envVars,
                   historyVars>>

\* send_proactive_title_update, lines 159-170: the title is composed and
\* written; an OSError of write or flush is swallowed and skips line 171.
PushWrite ==
    /\ Alive
    /\ sampler = "push_write"
    /\ \E ok \in BOOLEAN :
         IF ok
         THEN /\ tty' = Append(tty,
                    [kind |-> "push",
                     bytes |-> TITLE_SEQUENCE_FORMAT(
                         title_content(last_intercepted_title, default_title,
                                       last_stats)),
                     time |-> s_time])
              /\ sampler' = "push_stamp"
         ELSE /\ UNCHANGED tty
              /\ sampler' = "sleep"
    /\ UNCHANGED <<sessionVars, mainVars, relayVars, s_time, s_wake,
                   historyVars>>
    /\ UNCHANGED <<now, stdin_tty, stdin_state, term_mode, winch, handlers,
                   child, returncode, term_requested, fd_open, pending, status,
                   unread, term_size, environ, command, pty_input, slave_open, pty_size>>

\* send_proactive_title_update, line 171: self.last_title_update = ...
PushStamp ==
    /\ Alive
    /\ sampler = "push_stamp"
    /\ last_title_update' = s_time
    /\ sampler' = "sleep"
    /\ UNCHANGED <<refresh_interval, last_stats, running, master_fd,
                   original_termios, last_title_interception,
                   last_intercepted_title, default_title>>
    /\ UNCHANGED <<mainVars, relayVars, s_time, s_wake, envVars, historyVars>>

\* stats_updater, line 320: time.sleep(self.refresh_interval) begins.
SamplerSleep ==
    /\ Alive
    /\ sampler = "sleep"
    /\ s_wake' = now + refresh_interval
    /\ sampler' = "sleeping"
    /\ UNCHANGED <<sessionVars, mainVars, relayVars, s_time, envVars,
                   historyVars>>

\* time.sleep returns, not before its time.
SamplerWake ==
    /\ Alive
    /\ sampler = "sleeping"
    /\ now >= s_wake
    /\ sampler' = "loop"
    /\ UNCHANGED <<sessionVars, mainVars, relayVars, s_time, s_wake, envVars,
                   historyVars>>

NextTitle ==
    \/ Tick \/ RelayRead \/ RelayStoreTitle \/ RelayReadClock
    \/ RelayStoreStamp \/ RelayWrite \/ RelayStop \/ TitleChildExit
    \/ SamplerLoop \/ SamplerSample \/ PushClock \/ PushCheck \/ PushWrite
    \/ PushStamp \/ SamplerSleep \/ SamplerWake

SpecTitle == InitTitle /\ [][NextTitle]_vars

(***************************************************************************)
(* The same two threads for a session whose refresh interval is shorter    *)
(* than one tick of the clock (--interval 0.1): time.sleep returns within  *)
(* the tick it began in, so that several sampler ticks read the same time. *)
(***************************************************************************)
\* The first clock value of these sessions.
PushStart == StartTime + 1

InitPush ==
    /\ PtyRunning
    /\ refresh_interval = 0
    /\ \E stats \in Samples : last_stats = format_stats(stats)
    /\ default_title = DefaultTitle(ViCommand)
    /\ last_intercepted_title = <<>>
    /\ last_title_interception = 0
    /\ data = <<>>
    /\ modified_data = <<>>
    /\ relay = "select"
    /\ r_titles = <<>>
    /\ r_time = 0
    /\ sampler = "loop"
    /\ s_time = 0
    /\ s_wake = 0
    /\ now = PushStart
    /\ stamps = {}
    /\ chunks = <<>>
    /\ unread = <<>>

SpecPush == InitPush /\ [][NextTitle]_vars

(***************************************************************************)
(* The end of a PTY session with the sampler running: the relay loop, the *)
(* signal handler, the child's exit, the steps after the loop, and the     *)
(* sampler thread, which the end of the process ends with it.  All of it   *)
(* happens within one tick of the clock, the refresh interval being        *)
(* shorter than that.                                                      *)
(***************************************************************************)
InitStop ==
    /\ PtyRunning
    /\ refresh_interval = 0
    /\ \E stats \in Samples : last_stats = format_stats(stats)
    /\ default_title = DefaultTitle(ViCommand)
    /\ last_intercepted_title = <<>>
    /\ last_title_interception = 0
    /\ data = <<>>
    /\ modified_data = <<>>
    /\ relay = "read"
    /\ r_titles = <<>>
    /\ r_time = 0
    /\ sampler = "loop"
    /\ s_time = 0
    /\ s_wake = 0
    /\ now = StartTime
    /\ stamps = {}
    /\ chunks = <<>>
    /\ unread = <<>>

\* The main thread's steps from the relay loop to the exit.
MainSteps ==
    PtyLoopTest \/ PtyCycle \/ PtyStop \/ Wait \/ Cleanup \/ MainExit

\* The sampler thread's steps.
SamplerSteps ==
    \/ SamplerLoop \/ SamplerSample \/ PushClock \/ PushCheck \/ PushWrite
    \/ PushStamp \/ SamplerSleep \/ SamplerWake

NextStop ==
    \/ Sigterm \/ ChildExit \/ MainSteps \/ SamplerSteps

SpecStop == InitStop /\ [][NextStop]_vars

\* Both threads are scheduled as long as they have a step to take, and a
\* child that was sent SIGTERM ends.
SpecStopFair ==
    /\ SpecStop
    /\ WF_vars(MainSteps)
    /\ WF_vars(SamplerSteps)
    /\ WF_vars(term_requested /\ ChildExit)

(***************************************************************************)
(* The relay loop of _run_with_pty statement by statement (lines 421-450): *)
(* select, the input branch, the output branch, the poll.  The child, a    *)
(* separate process, and the user at the real terminal act between any two *)
(* of them.                                                                *)
(***************************************************************************)

\* Chunks a read of standard input returns in one session.
MaxInput == 2

\* What the user types: plain text, or a title sequence pasted in.
InputChunks == {<<98>>, <<ESC, RBRACKET, DIGIT0, SEMICOLON, 98, BEL>>}

InitRelay ==
    /\ PtyRunning
    /\ refresh_interval = DEFAULT_REFRESH_INTERVAL
    /\ \E stats \in Samples : last_stats = format_stats(stats)
    /\ default_title = DefaultTitle(ViCommand)
    /\ last_intercepted_title = <<>>
    /\ last_title_interception = 0
    /\ data = <<>>
    /\ modified_data = <<>>
    /\ relay = "master_idle"
    /\ r_titles = <<>>
    /\ r_time = 0
    /\ sampler = "loop"
    /\ s_time = 0
    /\ s_wake = 0
    /\ now = StartTime
    /\ stamps = {}
    /\ chunks = <<>>
    /\ unread = <<>>

\* Line 423: select on standard input and the PTY, with PTY_TIMEOUT.  The
\* answer is what holds at this moment.
CycleSelect ==
    /\ pc = "pty_select"
    /\ \E in_ev \in StdinEvents :
         /\ in_ev = "data" => Len(pty_input) < MaxInput
         /\ LET out_ready == MasterEvents # {"none"} IN
            /\ relay' = IF out_ready THEN "master_ready" ELSE "master_idle"
            /\ pc' = IF in_ev # "none" THEN "pty_in"
                     ELSE IF out_ready THEN "pty_out"
                     ELSE "pty_poll"
    /\ UNCHANGED <<sessionVars, mode, exc, exit_code, try_entered, data,
                   modified_data, r_titles, r_time, samplerVars, envVars,
                   historyVars>>

\* An input branch that hands what it read to the rewriter.
CycleInput_rewritten ==
    /\ pc = "pty_in"
    /\ stdin_state = "open"
    /\ \E chunk \in InputChunks :
         LET titles == CallbackTitles(chunk, last_stats, Len(TITLE_PATTERNS)) IN
         /\ data' = chunk
         /\ pty_input' = Append(pty_input, process_output(chunk, last_stats))
         /\ IF titles = <<>>
            THEN UNCHANGED <<last_intercepted_title, last_title_interception,
                             stamps>>
            ELSE /\ last_intercepted_title' = titles[Len(titles)]
                 /\ last_title_interception' = now
                 /\ stamps' = stamps \cup {now}
    /\ pc' = IF relay = "master_ready" THEN "pty_out" ELSE "pty_loop"
    /\ UNCHANGED <<refresh_interval, last_stats, running, master_fd,
                   original_termios, last_title_update, default_title>>
    /\ UNCHANGED <<mode, exc, exit_code, try_entered, modified_data, relay,
                   r_titles, r_time, samplerVars, sig_log, chunks>>
    /\ UNCHANGED <<now, stdin_tty, stdin_state, term_mode, winch, handlers,
                   child, returncode, term_requested, fd_open, pending, tty,
                   status, unread, term_size, environ, command, slave_open,
                   pty_size>>

\* Lines 425-432: the input branch.  The read returns a chunk, which is
\* written to the PTY; or zero bytes at end of input, which are not; or it
\* raises OSError, which leaves the loop.
CycleInput ==
    /\ pc = "pty_in"
    /\ IF stdin_state = "error"
       THEN /\ pc' = "pty_stop"
            /\ UNCHANGED <<data, pty_input>>
       ELSE /\ IF stdin_state = "eof"
               THEN /\ data' = <<>>
                    /\ UNCHANGED pty_input
               ELSE \E chunk \in InputChunks :
                      /\ data' = chunk
                      /\ pty_input' = Append(pty_input, chunk)
            /\ pc' = IF relay = "master_ready" THEN "pty_out" ELSE "pty_loop"
    /\ UNCHANGED <<sessionVars, mode, exc, exit_code, try_entered,
                   modified_data, relay, r_titles, r_time, samplerVars,
                   historyVars>>
    /\ UNCHANGED <<now, stdin_tty, stdin_state, term_mode, winch, handlers,
                   child, returncode, term_requested, fd_open, pending, tty,
                   status, unread, term_size, environ, command, slave_open,
                   pty_size>>

\* An output branch that goes on after a read without bytes.
CycleOutput_continue ==
    /\ pc = "pty_out"
    /\ pending = 0
    /\ pc' = "pty_loop"
    /\ UNCHANGED <<sessionVars, mode, exc, exit_code, try_entered, relayVars,
                   samplerVars, envVars, historyVars>>

\* Lines 435-446: the output branch.  The read returns buffered child
\* output, which goes through process_output (with the callback's stores)
\* to the real terminal; with none buffered the PTY has hung up, the read
\* returns zero bytes or raises OSError, and either leaves the loop.
CycleOutput ==
    /\ pc = "pty_out"
    /\ IF pending > 0
       THEN \E chunk \in RelayChunks :
              LET titles == CallbackTitles(chunk, last_stats,
                                           Len(TITLE_PATTERNS)) IN
              /\ data' = chunk
              /\ chunks' = Append(chunks, chunk)
              /\ modified_data' = process_output(chunk, last_stats)
              /\ pending' = pending - 1
              /\ tty' = Append(tty, [kind |-> "child",
                                     bytes |-> process_output(chunk, last_stats),
                                     time |-> now])
              /\ IF titles = <<>>
                 THEN UNCHANGED <<last_intercepted_title,
                                  last_title_interception, stamps>>
                 ELSE /\ last_intercepted_title' = titles[Len(titles)]
                      /\ last_title_interception' = now
                      /\ stamps' = stamps \cup {now}
              /\ pc' = "pty_loop"
       ELSE /\ \E zero \in BOOLEAN : data' = IF zero THEN <<>> ELSE data
            /\ pc' = "pty_stop"
            /\ UNCHANGED <<modified_data, pending, tty, chunks,
                           last_intercepted_title, last_title_interception,
                           stamps>>
    /\ UNCHANGED <<refresh_interval, last_stats, running, master_fd,
                   original_termios, last_title_update, default_title>>
    /\ UNCHANGED <<mode, exc, exit_code, try_entered, relay, r_titles, r_time,
                   samplerVars, sig_log>>
    /\ UNCHANGED <<now, stdin_tty, stdin_state, term_mode, winch, handlers,
                   child, returncode, term_requested, fd_open, status,
                   unread, term_size, environ, command, pty_input, slave_open,
                   pty_size>>

\* Line 449: with nothing ready, process.poll().
CyclePoll ==
    /\ pc = "pty_poll"
    /\ pc' = IF child = "exited" THEN "pty_stop" ELSE "pty_loop"
    /\ UNCHANGED <<sessionVars, mode, exc, exit_code, try_entered, relayVars,
                   samplerVars, envVars, historyVars>>

\* The main thread's steps from the relay loop to the exit.
RelaySteps ==
    \/ PtyLoopTest \/ CycleSelect \/ CycleInput \/ CycleOutput \/ CyclePoll
    \/ PtyStop \/ Wait \/ Cleanup \/ MainExit

NextRelay ==
    \/ RelaySteps
    \/ ChildExit \/ ChildWrite \/ StdinClose \/ StdinFail

SpecRelay == InitRelay /\ [][NextRelay]_vars

\* The main thread is scheduled as long as it has a step to take.
SpecRelayFair == SpecRelay /\ WF_vars(RelaySteps)

(***************************************************************************)
(* A whole session in either mode with the sampler thread running from    *)
(* the moment it is started: run_command, the start, the relay loop or the *)
(* wait, the cleanup and the exit, with the child writing and ending.      *)
(* The session lasts less than one refresh interval.                       *)
(***************************************************************************)
\* The sampler thread's first tick, up to the sleep that outlasts the
\* session.
FirstTick ==
    \/ SamplerLoop \/ SamplerSample \/ PushClock \/ PushCheck \/ PushWrite
    \/ PushStamp \/ SamplerSleep

NextSession ==
    \/ RunCommand \/ PtyOpen \/ PtySize \/ PtyRaw \/ PtyWinch
    \/ Spawn \/ PsutilHandle \/ PtyInitialStats \/ StartSampler
    \/ PtyCloseSlave \/ PtySetupHandlers \/ PtyLoopTest \/ PtyCycle
    \/ PtyStop \/ Wait \/ Cleanup \/ MainExit
    \/ ChildExit \/ ChildWrite
    \/ FirstTick

SpecSession == Init /\ [][NextSession]_vars

(***************************************************************************)
(* The relay loop on a stream the PTY hands over in two reads: each chunk  *)
(* is rewritten on its own (lines 437-442).                                *)
(***************************************************************************)
\* The stream the child wrote is built from at most this many pieces.
MaxSplitPieces == 3

\* The reads the stream is handed over in; the last one takes what is left.
MaxReads == 2

SplitStreams == {s \in ChunksOf(MaxSplitPieces) : Len(s) >= 2}

InitSplit ==
    /\ PtyRunning
    /\ refresh_interval = DEFAULT_REFRESH_INTERVAL
    /\ last_stats \in StatsTexts
    /\ unread \in SplitStreams
    /\ default_title = DefaultTitle(ViCommand)
    /\ last_intercepted_title = <<>>
    /\ last_title_interception = 0
    /\ data = <<>>
    /\ modified_data = <<>>
    /\ relay = "select"
    /\ r_titles = <<>>
    /\ r_time = 0
    /\ sampler = "none"
    /\ s_time = 0
    /\ s_wake = 0
    /\ now = StartTime
    /\ stamps = {}
    /\ chunks = <<>>

\* os.read(master_fd, IO_BUFFER_SIZE): some non-empty prefix of what the
\* PTY holds.
SplitRead ==
    /\ relay = "select"
    /\ unread # <<>>
    /\ \E k \in (IF Len(chunks) + 1 < MaxReads
                 THEN 1..Len(unread) ELSE {Len(unread)}) :
         /\ data' = SubSeq(unread, 1, k)
         /\ unread' = SubSeq(unread, k + 1, Len(unread))
         /\ chunks' = Append(chunks, SubSeq(unread, 1, k))
    /\ relay' = "read"
    /\ UNCHANGED <<sessionVars, mainVars, modified_data, r_titles, r_time,
                   samplerVars, sig_log, stamps>>
    /\ UNCHANGED <<now, stdin_tty, stdin_state, term_mode, winch, handlers,
                   child, returncode, term_requested, fd_open, pending, tty,
                   status, term_size, environ, command, pty_input, slave_open, pty_size>>

\* sys.stdout.buffer.write(modified_data) and flush, lines 441-442.
WriteChunk ==
    /\ relay = "rewritten"
    /\ tty' = Append(tty, [kind |-> "child", bytes |-> modified_data,
                           time |-> now])
    /\ relay' = "select"
    /\ UNCHANGED <<sessionVars, mainVars, data, modified_data, r_titles,
                   r_time, samplerVars, historyVars>>
    /\ UNCHANGED <<now, stdin_tty, stdin_state, term_mode, winch, handlers,
                   child, returncode, term_requested, fd_open, pending, status,
                   unread, term_size, environ, command, pty_input, slave_open, pty_size>>

NextSplit == SplitRead \/ RewriteChunk \/ WriteChunk

SpecSplit == InitSplit /\ [][NextSplit]_vars

(***************************************************************************)
(* The rewriter on chunks that hold several complete title sequences of   *)
(* different shapes, told apart by their payloads.                         *)
(***************************************************************************)
\* Title sequences in one chunk, at most.
MaxTitles == 2

\* One title sequence of each of the five shapes, with payload a or b.
TitleSequences ==
    { <<ESC, RBRACKET, TITLE_PATTERNS[n].code, SEMICOLON, p>>
          \o (IF TITLE_PATTERNS[n].term = "bel" THEN <<BEL>>
              ELSE <<ESC, BACKSLASH>>) :
        n \in 1..Len(TITLE_PATTERNS), p \in {97, 98} }

RECURSIVE TitleChunksOf(_)
TitleChunksOf(n) ==
    IF n = 0 THEN {<<>>}
    ELSE LET prev == TitleChunksOf(n - 1)
         IN prev \cup {c \o s : c \in prev, s \in TitleSequences}

InitOrder ==
    /\ PtyRunning
    /\ refresh_interval = DEFAULT_REFRESH_INTERVAL
    /\ last_stats \in CleanStats
    /\ data \in TitleChunksOf(MaxTitles) \ {<<>>}
    /\ default_title = DefaultTitle(ViCommand)
    /\ last_intercepted_title = <<>>
    /\ last_title_interception = 0
    /\ modified_data = <<>>
    /\ relay = "read"
    /\ r_titles = <<>>
    /\ r_time = 0
    /\ sampler = "none"
    /\ s_time = 0
    /\ s_wake = 0
    /\ now = StartTime
    /\ stamps = {}
    /\ chunks = <<data>>
    /\ unread = <<>>

NextOrder == RewriteChunk

SpecOrder == InitOrder /\ [][NextOrder]_vars

(***************************************************************************)
(* The relay loop on one escape sequence that the PTY hands over in two    *)
(* reads (lines 437-442), with the sampler thread writing its proactive    *)
(* titles to the same terminal (lines 166-171), within one refresh         *)
(* interval.                                                               *)
(***************************************************************************)
\* What the child writes: one title sequence (ESC ] 0 ; a BEL), or one
\* colour sequence (ESC [ 3 1 m).
EscapeStreams ==
    { <<ESC, RBRACKET, DIGIT0, SEMICOLON, 97, BEL>>,
      <<ESC, 91, 51, DIGIT1, 109>> }

InitInterleave ==
    /\ PtyRunning
    /\ refresh_interval = DEFAULT_REFRESH_INTERVAL
    /\ \E stats \in Samples : last_stats = format_stats(stats)
    /\ unread \in EscapeStreams
    /\ default_title = DefaultTitle(ViCommand)
    /\ last_intercepted_title = <<>>
    /\ last_title_interception = 0
    /\ data = <<>>
    /\ modified_data = <<>>
    /\ relay = "select"
    /\ r_titles = <<>>
    /\ r_time = 0
    /\ sampler = "loop"
    /\ s_time = 0
    /\ s_wake = 0
    /\ now = StartTime
    /\ stamps = {}
    /\ chunks = <<>>

NextInterleave ==
    \/ SplitRead \/ RewriteChunk \/ WriteChunk
    \/ FirstTick

SpecInterleave == InitInterleave /\ [][NextInterleave]_vars

(***************************************************************************)
(* The PTY relay loop with the window of the real terminal changing and   *)
(* SIGWINCH arriving (handle_window_size_change, lines 124-128).  Python   *)
(* runs the handler in the main thread between two steps of the relay, and *)
(* retries a system call the signal interrupted.                           *)
(***************************************************************************)
\* Window sizes of the real terminal; a terminal can report zeros.
TermSizes == {DefaultSize, <<50, 132>>, <<0, 0>>}

\* LINES and COLUMNS of sessions whose stdin is no terminal and whose
\* initial sizing nevertheless went through.
Environs ==
    { [LINES |-> EnvUnset, COLUMNS |-> EnvUnset],
      [LINES |-> EnvInt(40), COLUMNS |-> EnvUnset],
      [LINES |-> EnvJunk, COLUMNS |-> EnvInt(100)] }

\* What the child writes during the session: a title and a letter.
ResizeStreams ==
    { <<ESC, RBRACKET, DIGIT0, SEMICOLON, 97, BEL, 97>> }

\* The session in the relay loop, sized at its start (lines 385-386); with
\* stdin no terminal, setup_raw_terminal has saved nothing.
InitResize ==
    /\ refresh_interval = DEFAULT_REFRESH_INTERVAL
    /\ last_stats \in CleanStats
    /\ running = TRUE
    /\ master_fd = "fd"
    /\ stdin_tty \in BOOLEAN
    /\ original_termios = (IF stdin_tty THEN "saved" ELSE "None")
    /\ term_mode = (IF stdin_tty THEN "raw" ELSE "cooked")
    /\ last_title_update = 0
    /\ last_title_interception = 0
    /\ last_intercepted_title = <<>>
    /\ default_title = DefaultTitle(ViCommand)
    /\ mode = "pty"
    /\ pc = "pty_select"
    /\ exc = "none"
    /\ exit_code = <<>>
    /\ try_entered = TRUE
    /\ data = <<>>
    /\ modified_data = <<>>
    /\ relay = "select"
    /\ r_titles = <<>>
    /\ r_time = 0
    /\ sampler = "none"
    /\ s_time = 0
    /\ s_wake = 0
    /\ now = StartTime
    /\ stdin_state = "open"
    /\ winch = "handler"
    /\ handlers = TRUE
    /\ child = "running"
    /\ returncode = <<>>
    /\ term_requested = FALSE
    /\ fd_open = TRUE
    /\ pending = 0
    /\ tty = <<>>
    /\ status = <<>>
    /\ sig_log = <<>>
    /\ chunks = <<>>
    /\ unread \in ResizeStreams
    /\ term_size \in TermSizes
    /\ environ \in (IF stdin_tty THEN {[LINES |-> EnvUnset, COLUMNS |-> EnvUnset]}
                    ELSE Environs)
    /\ pty_size = get_terminal_size(stdin_tty, term_size, environ)
    /\ command = ViCommand
    /\ pty_input = <<>>
    /\ slave_open = TRUE
    /\ stamps = {}

\* The user resizes the window of the real terminal.
TerminalResize ==
    /\ \E size \in TermSizes \ {term_size} : term_size' = size
    /\ UNCHANGED <<sessionVars, mainVars, relayVars, samplerVars, historyVars>>
    /\ UNCHANGED <<now, stdin_tty, stdin_state, term_mode, winch, handlers,
                   child, returncode, term_requested, fd_open, pending, tty,
                   status, unread, environ, command, pty_input, slave_open, pty_size>>

\* SIGWINCH reaches the program while handle_window_size_change is
\* installed: with a PTY descriptor in the session it queries the size and
\* sets it on the PTY; a size struct.pack rejects raises struct.error out
\* of the handler into the main thread.
Sigwinch ==
    /\ Alive
    /\ winch = "handler"
    /\ Len(sig_log) < MaxSignals
    /\ sig_log' = Append(sig_log, [sig |-> "SIGWINCH", at |-> pc, mode |-> mode,
                                   child |-> child,
                                   raw |-> (term_mode = "raw"),
                                   handled |-> TRUE])
    /\ IF master_fd # "None"
       THEN LET size == get_terminal_size(stdin_tty, term_size, environ) IN
            IF Packs(size)
            THEN /\ pty_size' = set_pty_size(fd_open, size, pty_size)
                 /\ UNCHANGED <<pc, exc>>
            ELSE /\ exc' = "Exception"
                 /\ pc' = Raised(pc)
                 /\ UNCHANGED pty_size
       ELSE UNCHANGED <<pty_size, pc, exc>>
    /\ UNCHANGED <<sessionVars, mode, exit_code, try_entered, relayVars,
                   samplerVars, chunks, stamps>>
    /\ UNCHANGED <<now, stdin_tty, stdin_state, term_mode, winch, handlers,
                   child, returncode, term_requested, fd_open, pending, tty,
                   status, unread, term_size, environ, command, pty_input, slave_open>>

NextResize ==
    \/ SplitRead \/ RewriteChunk \/ WriteChunk
    \/ TerminalResize \/ Sigwinch

SpecResize == InitResize /\ [][NextResize]_vars

(***************************************************************************)
(* A PTY session from its start with LINES and COLUMNS of every kind in    *)
(* the environment, the window of the real terminal changing and SIGWINCH  *)
(* arriving.                                                               *)
(***************************************************************************)
\* LINES and COLUMNS as the environment may hold them: unset, a usual
\* value, zero, a negative number, a number above 65535, no number.
SizeEnvirons ==
    { [LINES |-> EnvUnset, COLUMNS |-> EnvUnset],
      [LINES |-> EnvInt(40), COLUMNS |-> EnvInt(100)],
      [LINES |-> EnvInt(0), COLUMNS |-> EnvUnset],
      [LINES |-> EnvUnset, COLUMNS |-> EnvInt(0 - 1)],
      [LINES |-> EnvInt(MaxUShort + 1), COLUMNS |-> EnvUnset],
      [LINES |-> EnvJunk, COLUMNS |-> EnvInt(100)] }

InitSize ==
    /\ refresh_interval = DEFAULT_REFRESH_INTERVAL
    /\ last_stats = <<>>
    /\ running = TRUE
    /\ master_fd = "None"
    /\ original_termios = "None"
    /\ last_title_update = 0
    /\ last_title_interception = 0
    /\ last_intercepted_title = <<>>
    /\ default_title = <<>>
    /\ mode = "none"
    /\ pc = "run_command"
    /\ exc = "none"
    /\ exit_code = <<>>
    /\ try_entered = FALSE
    /\ data = <<>>
    /\ modified_data = <<>>
    /\ relay = "read"
    /\ r_titles = <<>>
    /\ r_time = 0
    /\ sampler = "none"
    /\ s_time = 0
    /\ s_wake = 0
    /\ now = StartTime
    /\ stdin_tty \in BOOLEAN
    /\ stdin_state = "open"
    /\ term_mode = "cooked"
    /\ winch = "SIG_DFL"
    /\ handlers = FALSE
    /\ child = "none"
    /\ returncode = <<>>
    /\ term_requested = FALSE
    /\ fd_open = FALSE
    /\ pending = 0
    /\ tty = <<>>
    /\ status = <<>>
    /\ sig_log = <<>>
    /\ chunks = <<>>
    /\ unread = <<>>
    /\ term_size \in TermSizes
    /\ environ \in SizeEnvirons
    /\ pty_input = <<>>
    /\ slave_open = FALSE
    /\ pty_size = <<>>
    /\ command = ViCommand
    /\ stamps = {}

NextSize ==
    \/ RunCommand \/ PtyOpen \/ PtySize \/ PtyRaw \/ PtyWinch
    \/ Spawn \/ PsutilHandle \/ PtyInitialStats \/ StartSampler
    \/ PtyCloseSlave \/ PtySetupHandlers \/ PtyLoopTest \/ PtyCycle
    \/ PtyStop \/ Wait \/ Cleanup \/ MainExit
    \/ ChildExit \/ TerminalResize \/ Sigwinch

SpecSize == InitSize /\ [][NextSize]_vars

(***************************************************************************)
(* main: the command line, the session it constructs, and the start of    *)
(* the session up to the sampler thread.                                   *)
(***************************************************************************)

\* The argument "--", as a path of one component.
DashDash == << <<45, 45>> >>

\* What argparse hands main as args.command: nothing, a bare "--", a
\* command, or a command behind "--".
CommandLines ==
    {<<>>, <<DashDash>>} \cup Commands \cup {<<DashDash>> \o c : c \in Commands}

\* Values --interval can carry (type=float takes any number), in ticks:
\* -1.0, 0.0, 0.5 and the default 2.0 seconds.
IntervalArgs == {0 - 2, 0, 1, DEFAULT_REFRESH_INTERVAL}

\* The exit status of parser.error.
UsageError == 2

\* The process before main has parsed anything.
InitArgs ==
    /\ refresh_interval = DEFAULT_REFRESH_INTERVAL
    /\ last_stats = <<>>
    /\ running = TRUE
    /\ master_fd = "None"
    /\ original_termios = "None"
    /\ last_title_update = 0
    /\ last_title_interception = 0
    /\ last_intercepted_title = <<>>
    /\ default_title = <<>>
    /\ mode = "none"
    /\ pc = "main"
    /\ exc = "none"
    /\ exit_code = <<>>
    /\ try_entered = FALSE
    /\ data = <<>>
    /\ modified_data = <<>>
    /\ relay = "read"
    /\ r_titles = <<>>
    /\ r_time = 0
    /\ sampler = "none"
    /\ s_time = 0
    /\ s_wake = 0
    /\ now = StartTime
    /\ stdin_tty \in BOOLEAN
    /\ stdin_state = "open"
    /\ term_mode = "cooked"
    /\ winch = "SIG_DFL"
    /\ handlers = FALSE
    /\ child = "none"
    /\ returncode = <<>>
    /\ term_requested = FALSE
    /\ fd_open = FALSE
    /\ pending = 0
    /\ tty = <<>>
    /\ status = <<>>
    /\ sig_log = <<>>
    /\ chunks = <<>>
    /\ unread = <<>>
    /\ term_size = DefaultSize
    /\ environ = [LINES |-> EnvUnset, COLUMNS |-> EnvUnset]
    /\ pty_input = <<>>
    /\ slave_open = FALSE
    /\ pty_size = <<>>
    /\ command = <<>>
    /\ stamps = {}

\* main, from parse_args to the construction of the session: the "--"
\* separator is dropped, an empty command is a usage error, and the
\* interval goes to the session as parsed.
Main ==
    /\ pc = "main"
    /\ \E interval \in IntervalArgs, args_command \in CommandLines :
         LET stripped == IF args_command # <<>> /\ args_command[1] = DashDash
                         THEN Tail(args_command) ELSE args_command
         IN  IF stripped = <<>>
             THEN /\ status' = <<UsageError>>
                  /\ pc' = "exited"
                  /\ UNCHANGED <<refresh_interval, command>>
             ELSE /\ refresh_interval' = interval
                  /\ command' = stripped
                  /\ pc' = "run_command"
                  /\ UNCHANGED status
    /\ UNCHANGED <<last_stats, running, master_fd, original_termios,
                   last_title_update, last_title_interception,
                   last_intercepted_title, default_title>>
    /\ UNCHANGED <<mode, exc, exit_code, try_entered, relayVars, samplerVars,
                   historyVars>>
    /\ UNCHANGED <<now, stdin_tty, stdin_state, term_mode, winch, handlers,
                   child, returncode, term_requested, fd_open, pending, tty,
                   unread, term_size, environ, pty_input, slave_open, pty_size>>

NextArgs ==
    \/ Main \/ RunCommand
    \/ PtyOpen \/ PtySize \/ PtyRaw \/ PtyWinch
    \/ Spawn \/ PsutilHandle \/ PtyInitialStats \/ StartSampler

SpecArgs == InitArgs /\ [][NextArgs]_vars
(***************************************************************************)
(* The title grammar of the specification (section 4.2), stated on its own *)
(* and not through the patterns: d[i..e] is a recognized title sequence.   *)
(***************************************************************************)
NoDelimiter(d, lo, hi) == \A k \in lo..hi : d[k] # BEL /\ d[k] # ESC

IsRecognized(d, i, e) ==
    /\ i >= 1 /\ i + 4 <= e /\ e <= Len(d)
    /\ d[i] = ESC /\ d[i + 1] = RBRACKET /\ d[i + 3] = SEMICOLON
    /\ \/ /\ d[i + 2] \in {DIGIT0, DIGIT1, DIGIT2}
          /\ d[e] = BEL
          /\ NoDelimiter(d, i + 4, e - 1)
       \/ /\ d[i + 2] \in {DIGIT0, DIGIT2}
          /\ i + 5 <= e
          /\ d[e - 1] = ESC /\ d[e] = BACKSLASH
          /\ NoDelimiter(d, i + 4, e - 2)

\* The end of the recognized sequence that starts at i, 0 when none does.
SequenceEnd(d, i) ==
    IF \E e \in i..Len(d) : IsRecognized(d, i, e)
    THEN CHOOSE e \in i..Len(d) : IsRecognized(d, i, e)
    ELSE 0

HasSequence(d) == \E i \in 1..Len(d) : SequenceEnd(d, i) > 0

\* The chunk is one recognized sequence and nothing else.
IsOneSequence(d) == Len(d) >= 5 /\ IsRecognized(d, 1, Len(d))

TerminatorOf(m) == IF m[Len(m)] = BEL THEN <<BEL>> ELSE <<ESC, BACKSLASH>>

PayloadOf(m) == SubSeq(m, 5, Len(m) - Len(TerminatorOf(m)))

CleanText(s) == \A k \in 1..Len(s) : s[k] # BEL /\ s[k] # ESC

(***************************************************************************)
(* C1: for a chunk that is one recognized title sequence (any of the five  *)
(* shapes) and a stats text without BEL or ESC, process_output returns a   *)
(* sequence with the same 4-byte prefix and the same terminator, whose     *)
(* payload decodes to original + " | " + stats when the decoded original   *)
(* payload is non-empty and to stats when it is empty; a payload of valid  *)
(* UTF-8 is kept byte for byte in front of the appended text.              *)
(***************************************************************************)
C1_RewritePreservesShape ==
    (relay = "rewritten" /\ IsOneSequence(data) /\ CleanText(last_stats)) =>
        LET o == modified_data
            term == TerminatorOf(data)
            original == decode(PayloadOf(data))
        IN /\ Len(o) >= 4 + Len(term)
           /\ SubSeq(o, 1, 4) = SubSeq(data, 1, 4)
           /\ SubSeq(o, Len(o) - Len(term) + 1, Len(o)) = term
           /\ decode(SubSeq(o, 5, Len(o) - Len(term)))
                = (IF original # <<>> THEN original \o SEPARATOR \o last_stats
                   ELSE last_stats)
           /\ (original # <<>> /\ encode(original) = PayloadOf(data)) =>
                 SubSeq(o, 5, Len(o) - Len(term))
                   = PayloadOf(data) \o encode(SEPARATOR \o last_stats)

\* An OSC 2 title "a" ended by ESC \ came out with " | S" appended.
C1_Witness ==
    /\ relay = "rewritten"
    /\ data = <<ESC, RBRACKET, DIGIT2, SEMICOLON, 97, ESC, BACKSLASH>>
    /\ last_stats = <<83>>
    /\ modified_data = <<ESC, RBRACKET, DIGIT2, SEMICOLON, 97,
                         SPACE, PIPE, SPACE, 83, ESC, BACKSLASH>>

(***************************************************************************)
(* C2: process_output changes nothing outside recognized title sequences:  *)
(* its output is the input with each recognized sequence replaced, in      *)
(* place, by what process_output makes of that sequence alone, and every   *)
(* other byte kept in order; a chunk without a recognized sequence comes   *)
(* out unchanged.  This holds for every stats text of the model, also one  *)
(* that carries ESC.                                                       *)
(***************************************************************************)
RECURSIVE InPlace(_, _, _)
InPlace(d, i, stats) ==
    IF i > Len(d) THEN <<>>
    ELSE LET e == SequenceEnd(d, i) IN
         IF e > 0
         THEN process_output(SubSeq(d, i, e), stats) \o InPlace(d, e + 1, stats)
         ELSE <<d[i]>> \o InPlace(d, i + 1, stats)

C2_OnlyTitlesChange ==
    relay = "rewritten" =>
        /\ modified_data = InPlace(data, 1, last_stats)
        /\ ~HasSequence(data) => modified_data = data

\* An invalid byte and a letter around an empty OSC 0 title: only the
\* sequence changed.
C2_Witness ==
    /\ relay = "rewritten"
    /\ data = <<255, ESC, RBRACKET, DIGIT0, SEMICOLON, BEL, 97>>
    /\ last_stats = <<83>>
    /\ modified_data = <<255, ESC, RBRACKET, DIGIT0, SEMICOLON, 83, BEL, 97>>


(***************************************************************************)
(* The lifecycle: exit status, cleanup, signals.                           *)
(***************************************************************************)
\* The record cleanup leaves on the real terminal.
IsReset(w) == w.kind = "reset" /\ w.bytes = TERMINAL_RESET_SEQUENCE

\* An interrupt that arrived while the finally clause was about to run and
\* no handler was installed: it replaced the cleanup.
CleanupInterrupted ==
    \E i \in DOMAIN sig_log :
        /\ sig_log[i].sig = "SIGINT"
        /\ sig_log[i].at = "finally"
        /\ ~sig_log[i].handled

\* C3: on normal completion, in PTY mode and in Direct mode, the exit code
\* run_command returns is the child's, and the program exits with it (the
\* operating system reports it modulo 256; for a code in 0..255 that is the
\* code itself).
C3_ExitCodeIsChilds ==
    (pc = "exited" /\ exc = "none") =>
        /\ mode \in {"pty", "direct"}
        /\ child = "exited"
        /\ exit_code = returncode
        /\ status = <<returncode[1] % 256>>
        /\ (returncode[1] \in 0..255 => status = returncode)

\* C3 witness: a PTY session whose child wrote output, exited with 7, no
\* signal involved; the program exited with 7.
C3_Witness ==
    /\ pc = "exited"
    /\ mode = "pty"
    /\ sig_log = <<>>
    /\ returncode = <<7>>
    /\ status = <<7>>
    /\ Len(tty) = 2

\* C4 as stated: once a run was started, a program that exits has written
\* the title reset sequence exactly once, however the run ended.
C4_ResetExactlyOnce ==
    (pc = "exited" /\ mode # "none") =>
        /\ ResetCount = 1
        /\ \A i \in DOMAIN tty : tty[i].kind = "reset" => IsReset(tty[i])

\* C5 as stated: a SIGINT or SIGTERM delivered once the terminal is raw or
\* the child is spawned never ends the program before cleanup restored the
\* terminal mode and wrote the reset sequence.
C5_SignalsRunCleanup ==
    \A i \in DOMAIN sig_log :
        (/\ sig_log[i].raw \/ sig_log[i].child # "none"
         /\ pc \in {"exited", "killed"})
        => (term_mode = "cooked" /\ ResetCount >= 1)

\* C6: in PTY mode, when a step inside the try block raised or was
\* interrupted (or the run completed), and the finally clause was not itself
\* replaced by a further interrupt, cleanup has performed all its steps:
\* terminal mode restored, SIGWINCH back to default, PTY descriptor closed,
\* reset sequence written last and once, descriptor reference cleared.
C6_CleanupPerformsAllSteps ==
    (/\ mode = "pty"
     /\ try_entered
     /\ pc \in {"main_exit", "exited"}
     /\ ~CleanupInterrupted)
    => /\ term_mode = "cooked"
       /\ winch = "SIG_DFL"
       /\ ~fd_open
       /\ ResetCount = 1
       /\ IsReset(tty[Len(tty)])
       /\ master_fd = "None"
       /\ ~running

\* C6 witness: the spawn failed after the terminal had been made raw; the
\* program exited with the terminal restored and the title reset.
C6_Witness ==
    /\ pc = "exited"
    /\ mode = "pty"
    /\ exc = "Exception"
    /\ child = "none"
    /\ original_termios = "saved"
    /\ term_mode = "cooked"
    /\ winch = "SIG_DFL"
    /\ ~fd_open
    /\ ResetCount = 1

\* C7 as stated: in both modes a SIGINT or SIGTERM delivered while the child
\* runs clears the running flag and requests termination of the child.
C7_SignalStopsSession ==
    \A i \in DOMAIN sig_log :
        sig_log[i].child = "running" => (~running /\ term_requested)

\* C8 as stated: a SIGINT while the child is running makes the program exit
\* with 130 after cleanup, in PTY mode as in Direct mode.
C8_InterruptExits130 ==
    \A i \in DOMAIN sig_log :
        (/\ sig_log[i].sig = "SIGINT"
         /\ sig_log[i].child = "running"
         /\ pc = "exited")
        => /\ status = <<130>>
           /\ (~CleanupInterrupted =>
                   term_mode = "cooked" /\ ResetCount = 1)

\* C8 amended: a SIGINT while the child is running ends in exit code 130
\* where it surfaces as KeyboardInterrupt (Direct mode; PTY mode before the
\* handlers are installed), with cleanup done unless a further interrupt
\* replaced it; where signal_handler takes it (PTY mode from the relay loop
\* on) the running flag is cleared, termination of the child is requested,
\* cleanup is done and the program exits with the child's return code
\* modulo 256.
C8_InterruptExit ==
    \A i \in DOMAIN sig_log :
        (/\ sig_log[i].sig = "SIGINT"
         /\ sig_log[i].child = "running"
         /\ pc = "exited")
        => IF sig_log[i].handled
           THEN /\ sig_log[i].mode = "pty"
                /\ ~running
                /\ term_requested
                /\ exc = "none"
                /\ status = <<returncode[1] % 256>>
                /\ term_mode = "cooked"
                /\ ResetCount = 1
           ELSE /\ status = <<130>>
                /\ (~CleanupInterrupted =>
                        term_mode = "cooked" /\ ResetCount = 1)

\* C8 witness: PTY mode, SIGINT taken by signal_handler while the child
\* ran, the child died of the SIGTERM it was sent, the program exited 241.
C8_Witness ==
    /\ pc = "exited"
    /\ mode = "pty"
    /\ Len(sig_log) = 1
    /\ sig_log[1].sig = "SIGINT"
    /\ sig_log[1].child = "running"
    /\ sig_log[1].handled
    /\ returncode = <<KilledBySigterm>>
    /\ status = <<241>>
    /\ ResetCount = 1

(***************************************************************************)
(* The proactive title push.                                               *)
(***************************************************************************)
\* The push timestamps stored by line 171 so far: the current_time of each
\* push on the terminal up to the one last_title_update holds.
PushStamps ==
    {tty[i].time : i \in {j \in DOMAIN tty : /\ tty[j].kind = "push"
                                             /\ tty[j].time <= last_title_update}}

\* C9 as stated: no push timestamp p lies strictly inside the suppression
\* window (t, t + 1.0 s) of a recorded interception timestamp t, under every
\* interleaving of the relay loop and the sampler.
C9_NoPushInSuppressionWindow ==
    \A t \in stamps : \A p \in PushStamps :
        ~(t < p /\ p < t + TITLE_SUPPRESSION_DURATION)

\* The title a push has to carry for a session in the given state.
ExpectedPush(title, default, stats) ==
    <<ESC, RBRACKET, DIGIT0, SEMICOLON>>
        \o encode(IF title # <<>> THEN title \o <<SPACE, PIPE, SPACE>> \o stats
                  ELSE IF default # <<>>
                  THEN default \o <<SPACE, PIPE, SPACE>> \o stats
                  ELSE stats)
        \o <<BEL>>

\* C10: a step that puts a proactive push on the terminal writes ESC ] 0 ;
\* payload BEL with the payload composed from the session's last intercepted
\* title (if non-empty), else its default title (if non-empty), else the
\* stats alone, and leaves last_title_update alone; a write that failed puts
\* no push there; last_title_update changes only in the sampler's step after
\* a successful write, to the time of that push.
C10_PushComposedThenStamped ==
    [][ /\ (sampler = "push_write" /\ sampler' = "push_stamp") =>
              /\ tty' = Append(tty, tty'[Len(tty')])
              /\ tty'[Len(tty')].kind = "push"
              /\ tty'[Len(tty')].bytes =
                     ExpectedPush(last_intercepted_title, default_title,
                                  last_stats)
              /\ last_title_update' = last_title_update
        /\ (sampler = "push_write" /\ sampler' # "push_stamp") =>
              /\ last_title_update' = last_title_update
              /\ \A i \in DOMAIN tty' : tty'[i].kind = "push" => i \in DOMAIN tty
        /\ (last_title_update' # last_title_update) =>
              /\ sampler = "push_stamp"
              /\ tty' = tty
              /\ \E i \in DOMAIN tty : /\ tty[i].kind = "push"
                                       /\ tty[i].time = last_title_update'
      ]_vars

\* C10 witness: the title a was intercepted, and a push carrying
\* "a | <stats>" is on the terminal with its time stamped.
C10_Witness ==
    /\ last_intercepted_title = <<97>>
    /\ tty # <<>>
    /\ tty[Len(tty)].kind = "push"
    /\ tty[Len(tty)].bytes =
           <<ESC, RBRACKET, DIGIT0, SEMICOLON, 97, SPACE, PIPE, SPACE>>
               \o encode(last_stats) \o <<BEL>>
    /\ last_title_update = tty[Len(tty)].time
    /\ last_title_update >= last_title_interception + TITLE_SUPPRESSION_DURATION

(***************************************************************************)
(* Title sequences and chunk boundaries.                                   *)
(***************************************************************************)
\* The stream went through the relay in two chunks.
TwoChunksDone ==
    /\ Len(chunks) = 2
    /\ Len(tty) = 2
    /\ unread = <<>>
    /\ relay = "select"

\* A recognized sequence d[i..e] of the stream lies across index k.
Straddles(d, k, i, e) == i <= k /\ k < e /\ IsRecognized(d, i, e)

\* C11: when a title sequence of the stream is split over two consecutive
\* chunks, its part in the first chunk ends the first output untouched and
\* its part in the second chunk starts the second output untouched; when
\* neither chunk holds a complete sequence of its own, the two outputs
\* together are the stream, byte for byte.
C11_SplitSequencePassesThrough ==
    TwoChunksDone =>
        LET whole == chunks[1] \o chunks[2]
            k == Len(chunks[1])
            o1 == tty[1].bytes
            o2 == tty[2].bytes
        IN \A i \in 1..k : \A e \in (k + 1)..Len(whole) :
             Straddles(whole, k, i, e) =>
               /\ Len(o1) >= k - i + 1
               /\ SubSeq(o1, Len(o1) - (k - i), Len(o1)) = SubSeq(whole, i, k)
               /\ Len(o2) >= e - k
               /\ SubSeq(o2, 1, e - k) = SubSeq(whole, k + 1, e)
               /\ (~HasSequence(chunks[1]) /\ ~HasSequence(chunks[2]))
                     => o1 \o o2 = whole

\* C11 witness: ESC ] 0 ; a came in the first read and BEL in the second;
\* both went to the terminal as they were.
C11_Witness ==
    /\ TwoChunksDone
    /\ chunks = << <<ESC, RBRACKET, DIGIT0, SEMICOLON, 97>>, <<BEL>> >>
    /\ tty[1].bytes = chunks[1]
    /\ tty[2].bytes = chunks[2]
    /\ last_intercepted_title = <<>>

\* The name run_command classifies: the last component of the first argument.
CommandName == command[1][Len(command[1])]

\* C12: the classification goes by the base name of the first argument, its
\* directories stripped: a name of the non-interactive set (sleep) gives the
\* Direct relay, a name of the interactive set (vi) and any other name give
\* the PTY relay, and run_command uses no relay but the one chosen so.
C12_ModeFollowsBaseName ==
    mode # "none" =>
        /\ CommandName \in NON_INTERACTIVE_COMMANDS => mode = "direct"
        /\ CommandName \in INTERACTIVE_COMMANDS => mode = "pty"
        /\ CommandName \notin NON_INTERACTIVE_COMMANDS => mode = "pty"
        /\ CommandName = <<115, 108, 101, 101, 112>> => mode = "direct"
        /\ mode = "pty" => pc \notin {"direct_spawn", "direct_psutil", "direct_thread", "direct_wait"}
        /\ mode = "direct" => master_fd = "None" /\ pty_size = <<>>

\* C12 witness: usr/bin/sleep, a path, runs as a child of the Direct relay.
C12_Witness ==
    /\ command # <<>>
    /\ Len(command[1]) = 3
    /\ CommandName = <<115, 108, 101, 101, 112>>
    /\ mode = "direct"
    /\ child = "running"
    /\ sampler = "loop"

\* The chunk is one recognized title sequence with nothing enclosed.
IsEmptySequence(d) == IsOneSequence(d) /\ PayloadOf(d) = <<>>

C14_UnrecognizedPassesThrough ==
    [][(relay = "read" /\ ~HasSequence(data)) =>
          /\ modified_data' = data
          /\ last_intercepted_title' = last_intercepted_title
          /\ last_title_interception' = last_title_interception]_vars

\* C14 witness: ESC ] 1 ; a ESC \ went through, nothing recorded.
C14_Witness ==
    /\ relay = "rewritten"
    /\ data = <<ESC, RBRACKET, DIGIT1, SEMICOLON, 97, ESC, BACKSLASH>>
    /\ modified_data = data
    /\ last_intercepted_title = <<>>
    /\ last_title_interception = 0
    /\ stamps = {}

\* The decoded payload of a second pass of process_output over its own
\* output, the title T of the chunk having had the stats S appended twice.
TwiceAppended(d, stats) ==
    LET T == decode(PayloadOf(d))
    IN IF T # <<>> THEN T \o SEPARATOR \o stats \o SEPARATOR \o stats
       ELSE stats \o SEPARATOR \o stats

\* process_output applied to what it made of the chunk: the 4-byte prefix
\* and the terminator of d, and the stats appended twice.
SecondPassAppendsAgain(d, o1, stats) ==
    LET o2 == process_output(o1, stats)
        term == TerminatorOf(d)
    IN /\ o2 # o1
       /\ Len(o2) >= 4 + Len(term)
       /\ SubSeq(o2, 1, 4) = SubSeq(d, 1, 4)
       /\ SubSeq(o2, Len(o2) - Len(term) + 1, Len(o2)) = term
       /\ decode(SubSeq(o2, 5, Len(o2) - Len(term))) = TwiceAppended(d, stats)

\* C15 (as stated): for a chunk that is one title sequence with payload T
\* and any stats text S, process_output applied to its own output gives the
\* same prefix and terminator around T | S | S.
C15_TwiceAppendsTwice ==
    (relay = "rewritten" /\ IsOneSequence(data)) =>
        SecondPassAppendsAgain(data, modified_data, last_stats)

\* C15 (amended): the same for a stats text without BEL or ESC: the second
\* pass differs from the first, keeps prefix and terminator, and its
\* payload decodes to T | S | S (S | S when T is empty).
C15_TwiceAppendsTwiceClean ==
    (relay = "rewritten" /\ IsOneSequence(data) /\ CleanText(last_stats)) =>
        SecondPassAppendsAgain(data, modified_data, last_stats)

\* C15 witness: ESC ] 0 ; a BEL became a | S, and a second pass over that
\* gives a | S | S.
C15_Witness ==
    /\ relay = "rewritten"
    /\ data = <<ESC, RBRACKET, DIGIT0, SEMICOLON, 97, BEL>>
    /\ last_stats = <<83>>
    /\ modified_data = <<ESC, RBRACKET, DIGIT0, SEMICOLON, 97,
                         SPACE, PIPE, SPACE, 83, BEL>>
    /\ process_output(modified_data, last_stats)
         = <<ESC, RBRACKET, DIGIT0, SEMICOLON, 97, SPACE, PIPE, SPACE, 83,
             SPACE, PIPE, SPACE, 83, BEL>>

\* The step is the delivery of SIGWINCH in PTY mode with the child running.
ResizeNotified ==
    /\ Len(sig_log') = Len(sig_log) + 1
    /\ sig_log'[Len(sig_log')].sig = "SIGWINCH"
    /\ mode = "pty"
    /\ child = "running"

\* What the real terminal reports as its size at this moment.
QueriedSize ==
    IF stdin_tty
    THEN IF term_size[1] = 0 \/ term_size[2] = 0 THEN <<24, 80>> ELSE term_size
    ELSE get_terminal_size(FALSE, term_size, environ)

\* C16: in PTY mode, a SIGWINCH that arrives while the child runs sets the
\* size of the child's pseudo-terminal to the size queried at that moment
\* and changes nothing else: the bytes read, being rewritten, written and
\* still unread stay as they are, the relay stays where it is with the
\* running flag set and no exception raised, and the stats and title
\* bookkeeping of the session is unchanged.
C16_ResizeOnlySetsPtySize ==
    [][ResizeNotified =>
          /\ pty_size' = QueriedSize
          /\ UNCHANGED <<sessionVars, mainVars, relayVars, samplerVars>>
          /\ UNCHANGED <<tty, unread, chunks, stamps, child, fd_open,
                         term_mode, winch, handlers, term_requested, status>>
          /\ running /\ pc = "pty_select" /\ exc = "none"]_vars

\* C16 witness: the window went to 50 x 132 and SIGWINCH came during the
\* session; the PTY has that size, and the relay delivered the whole
\* stream, the title rewritten and recorded.
C16_Witness ==
    /\ sig_log # <<>>
    /\ sig_log[1].sig = "SIGWINCH"
    /\ term_size = <<50, 132>>
    /\ pty_size = <<50, 132>>
    /\ Len(chunks) = 2
    /\ unread = <<>>
    /\ relay = "select"
    /\ Len(tty) = 2
    /\ tty[1].bytes = process_output(chunks[1], last_stats)
    /\ tty[2].bytes = chunks[2]
    /\ last_intercepted_title = <<97>>

\* C17: the refresh interval of every session that has spawned a child or
\* started its sampler is strictly positive: no --interval value that is
\* zero or negative reaches a running session.
C17_IntervalPositive ==
    (child # "none" \/ sampler # "none") => refresh_interval > 0

\* Where the recognized title sequences of d start; no two overlap, a
\* payload holding no ESC.
SequenceStarts(d) == {i \in 1..Len(d) : SequenceEnd(d, i) > 0}

\* How often the bytes s occur in the bytes t.
Occurrences(s, t) ==
    Cardinality({k \in 1..(Len(t) - Len(s) + 1) : SubSeq(t, k, k + Len(s) - 1) = s})

LastSequenceStart(d) ==
    CHOOSE i \in SequenceStarts(d) : \A j \in SequenceStarts(d) : j <= i

\* C19: after process_output has rewritten a chunk that holds one or more
\* recognized title sequences, the last intercepted title of the session is
\* the decoded payload of the sequence that comes last in the chunk, from
\* left to right, whatever the OSC codes and terminators of the sequences.
C19_LastTitleIsLastInStream ==
    (relay = "rewritten" /\ HasSequence(data)) =>
        LET i == LastSequenceStart(data)
        IN last_intercepted_title
             = decode(PayloadOf(SubSeq(data, i, SequenceEnd(data, i))))

\* Entry i of the terminal is a chunk of child output with a title in it.
TitleWritten(i) == tty[i].kind = "child" /\ HasSequence(tty[i].bytes)

\* The chunk of child output that entry i of the terminal came from.
ChunkOf(i) ==
    chunks[Cardinality({j \in 1..i : tty[j].kind = "child"})]

\* The decoded payloads of the recognized title sequences of d.
PayloadsIn(d) ==
    {decode(PayloadOf(SubSeq(d, i, SequenceEnd(d, i)))) : i \in SequenceStarts(d)}

\* C20: once a rewritten title is on the real terminal, its interception
\* is in the session: a timestamp taken no later than the write has been
\* stored, the session holds that timestamp or a later one, and (no later
\* chunk having been read) the last intercepted title is a title of that
\* chunk.  Every sampler tick that reads the session after the write
\* therefore tests against that interception.
C20_InterceptionStoredBeforeWrite ==
    \A i \in DOMAIN tty :
        TitleWritten(i) =>
            /\ \E s \in stamps : s <= tty[i].time /\ s <= last_title_interception
            /\ last_title_interception \in stamps
            /\ (ChunkOf(i) = chunks[Len(chunks)] /\ relay \in {"select", "write"}) =>
                  last_intercepted_title \in PayloadsIn(ChunkOf(i))
            /\ (sampler = "push_check" /\ s_time >= tty[i].time) =>
                  \E s \in stamps : s <= s_time /\ s <= last_title_interception

\* C20 witness: the title a was intercepted at the start, its rewritten
\* form is on the terminal, and a sampler tick that read the clock later
\* is about to test against that interception.
C20_Witness ==
    /\ Len(tty) = 1
    /\ TitleWritten(1)
    /\ chunks = << <<ESC, RBRACKET, DIGIT0, SEMICOLON, 97, BEL>> >>
    /\ last_intercepted_title = <<97>>
    /\ last_title_interception = StartTime
    /\ tty[1].time = StartTime
    /\ sampler = "push_check"
    /\ s_time > tty[1].time

\* C21: under every interleaving of the relay loop and the sampler, once
\* the rewritten form of an intercepted title is on the real terminal, no
\* step of the sampler writes a proactive title to the terminal before the
\* suppression window that follows that write is over.
C21_NoPushOverFreshTitle ==
    [][(sampler = "push_write" /\ sampler' = "push_stamp") =>
          \A i \in DOMAIN tty :
              TitleWritten(i) => now >= tty[i].time + TITLE_SUPPRESSION_DURATION
      ]_vars

\* The proactive pushes on the real terminal, by their position.
Pushes == {i \in DOMAIN tty : tty[i].kind = "push"}

\* C22: the timestamps of any two proactive pushes written in one session
\* are at least the minimum push interval apart; an attempt that fails the
\* suppression test or the interval test ends the tick with nothing written
\* and the last-push time as it was, and a push reaches the terminal only
\* from a tick whose time is at least the minimum interval after the
\* last-push time.
C22_PushesSpacedSkipsSilent ==
    /\ [](\A i, j \in Pushes :
             i < j => tty[j].time - tty[i].time >= TITLE_UPDATE_INTERVAL)
    /\ [][ /\ (sampler = "push_check" /\ sampler' # "push_check"
                 /\ (\/ s_time - last_title_interception < TITLE_SUPPRESSION_DURATION
                     \/ s_time - last_title_update < TITLE_UPDATE_INTERVAL)) =>
                 /\ sampler' = "sleep"
                 /\ tty' = tty
                 /\ last_title_update' = last_title_update
           /\ (\E i \in DOMAIN tty' : i \notin DOMAIN tty /\ tty'[i].kind = "push") =>
                 /\ sampler = "push_write"
                 /\ s_time - last_title_update >= TITLE_UPDATE_INTERVAL
         ]_vars

\* C22 witness: two pushes one minimum interval apart are on the terminal,
\* and a later tick, less than the suppression window after an
\* interception, has ended without a push.
C22_Witness ==
    /\ \E i, j \in Pushes :
          i < j /\ tty[j].time - tty[i].time = TITLE_UPDATE_INTERVAL
    /\ sampler = "sleep"
    /\ s_time > last_title_update
    /\ s_time - last_title_interception < TITLE_SUPPRESSION_DURATION
    /\ tty[Len(tty)].kind = "child"
    /\ Cardinality(Pushes) = 2

\* The sampler thread has left its loop, or the process has ended.
SamplerExited == sampler = "done" \/ ~Alive

\* The main thread is past the relay loop.
RelayExited == pc \notin RelayLoop

\* C23: once the running flag is cleared, the sampler's loop test starts no
\* further tick (the tick in progress may still update the stats and push
\* once) and a sampler that has left its loop stays out of it; the relay's
\* loop test starts no further readiness-wait cycle; and both the sampler
\* and the relay loop then exit.
C23_NoFurtherTickOrCycle ==
    /\ [][ /\ (sampler = "loop" /\ ~running /\ sampler' # sampler) =>
                 sampler' = "done"
           /\ sampler = "done" => sampler' = "done"
           /\ (pc = "pty_loop" /\ ~running /\ pc' # pc) => pc' = "pty_stop"
           /\ ~running => ~running'
         ]_vars
    /\ (~running ~> SamplerExited)
    /\ (~running ~> RelayExited)

\* C23 witness: signal_handler cleared the flag while the child ran and the
\* sampler was in a tick; that tick pushed its title, and then the sampler
\* and the relay loop were left.
C23_Witness ==
    /\ sig_log # <<>>
    /\ sig_log[1].handled
    /\ sig_log[1].at = "pty_select"
    /\ ~running
    /\ child = "running"
    /\ sampler = "done"
    /\ pc = "pty_wait"
    /\ tty # <<>>
    /\ tty[Len(tty)].kind = "push"

\* C24: in the PTY relay loop, a cycle in which the read from standard
\* input returns zero bytes (standard input is at its end, so select
\* reports it and the read returns nothing) breaks the loop, as a cycle
\* whose read raises does.
C24_InputEofBreaksLoop ==
    [][(pc = "pty_select" /\ stdin_state = "eof" /\ pc' # pc) =>
          pc' = "pty_stop"]_vars

\* The main thread has left the relay loop for the steps after it.
LoopLeft == pc \in {"pty_stop", "pty_wait", "finally", "main_exit", "exited"}

\* C25: in the running PTY session a read of the PTY controlling descriptor
\* that returns zero bytes or raises an I/O error ends the relay loop; the
\* session then waits for the child (Draining) and cleans up (Closed), and
\* from the end of the loop on nothing is read from standard input or the
\* PTY and nothing is written to the PTY.
C25_MasterEndEndsRelay ==
    /\ [][/\ (pc = "pty_out" /\ pending = 0 /\ pc' # pc) =>
                (pc' = "pty_stop" /\ tty' = tty /\ pty_input' = pty_input)
          /\ LoopLeft =>
                /\ LoopLeft'
                /\ data' = data
                /\ chunks' = chunks
                /\ pty_input' = pty_input
                /\ pending' >= pending
          /\ pc = "pty_stop" => pc' \in {"pty_stop", "pty_wait"}
          /\ pc = "pty_wait" => pc' \in {"pty_wait", "finally"}
         ]_vars
    /\ (pc = "pty_stop" /\ pending = 0 /\ ~slave_open) ~> (pc = "exited")

\* C25 witness: after a chunk of child output was relayed the PTY read
\* returned zero bytes, and the session ended with standard input still open.
C25_Witness ==
    /\ pc = "exited"
    /\ chunks # <<>>
    /\ data = <<>>
    /\ pending = 0
    /\ ~slave_open
    /\ stdin_state = "open"
    /\ tty # <<>>
    /\ tty[Len(tty)].kind = "reset"

\* C26: what the input branch reads from standard input it writes to the
\* PTY as it is, after what it wrote before, title sequences included; the
\* branch writes nothing to the real terminal and leaves the last
\* intercepted title, the interception timestamp and the time of the last
\* push alone.
C26_InputVerbatim ==
    [][(pc = "pty_in" /\ pc' # pc) =>
          /\ last_intercepted_title' = last_intercepted_title
          /\ last_title_interception' = last_title_interception
          /\ last_title_update' = last_title_update
          /\ stamps' = stamps
          /\ modified_data' = modified_data
          /\ tty' = tty
          /\ IF stdin_state = "open"
             THEN /\ data' \in InputChunks
                  /\ pty_input' = Append(pty_input, data')
             ELSE pty_input' = pty_input
      ]_vars

\* C26 witness: the user typed a title sequence and then a letter; both are
\* on the PTY in that order, and no title was intercepted.
C26_Witness ==
    /\ Len(pty_input) = 2
    /\ HasSequence(pty_input[1])
    /\ pty_input[2] = <<98>>
    /\ data = <<98>>
    /\ last_intercepted_title = <<>>
    /\ last_title_interception = 0
    /\ stamps = {}
    /\ tty = <<>>

\* C27: in PTY mode, once the child has exited the relay loop is eventually
\* left and the session reaches its end, whatever standard input does, also
\* when it is ready in every cycle and the PTY reports neither data nor a
\* hang-up.
C27_ChildExitEndsRelay ==
    (mode = "pty" /\ child = "exited") ~> (pc = "exited")

\* C28: in PTY mode, when the child completes of its own accord (no signal
\* was delivered, standard input did not fail), the session does not end
\* with child output still unread in the PTY: every chunk the child wrote
\* has been relayed to the real terminal.
C28_NoOutputDiscarded ==
    (/\ mode = "pty"
     /\ pc \in {"main_exit", "exited"}
     /\ sig_log = <<>>
     /\ stdin_state # "error"
     /\ exc = "none") => pending = 0

\* C29: a sampler tick that finds the root process no longer running ends
\* the sampler thread; from then on last_stats is not assigned, no
\* proactive title is written and the time of the last push is not stored.
C29_SamplerStopsForGood ==
    [][/\ (sampler = "sample" /\ sampler' \notin {"sample", "push_clock"}) =>
             (sampler' = "done" /\ last_stats' = last_stats)
       /\ sampler = "done" =>
             /\ sampler' = "done"
             /\ last_stats' = last_stats
             /\ last_title_update' = last_title_update
             /\ Pushes' = Pushes
      ]_vars

\* C29 witness: the sampler had pushed a title; the child exited, the next
\* tick found it gone and the sampler ended, while the relay loop still
\* runs with the running flag set.
C29_Witness ==
    /\ sampler = "done"
    /\ running
    /\ child = "exited"
    /\ pc = "pty_select"
    /\ Pushes # {}
    /\ sig_log = <<>>

\* C30: a tick in which the stats provider raised for the root process ends
\* the sampler: it does not store the stats string of a root that could not
\* be sampled and go on to the proactive title.
C30_ProviderErrorEndsSampler ==
    [][(sampler = "sample" /\ sampler' = "push_clock") =>
          last_stats' # format_stats(Unsampled)]_vars

\* C31: in PTY mode last_stats is non-empty once the sampler thread is
\* started and once a chunk of child output has been read for rewriting,
\* and in both modes a proactive title is written only with a non-empty
\* last_stats.
C31_StatsNeverEmpty ==
    /\ [](/\ (mode = "pty" /\ sampler # "none") => last_stats # <<>>
          /\ chunks # <<>> => last_stats # <<>>
          /\ Pushes # {} => last_stats # <<>>)
    /\ [][Pushes' # Pushes =>
             (last_stats # <<>> /\ last_stats' = last_stats)]_vars

\* C31 witness: a PTY session relayed a chunk of child output and its
\* sampler pushed a title carrying the stats text of its tick.
C31_Witness ==
    /\ mode = "pty"
    /\ chunks # <<>>
    /\ \E i \in Pushes :
         tty[i].bytes = TITLE_SEQUENCE_FORMAT(default_title \o SEPARATOR
                                              \o last_stats)
    /\ last_stats \in {format_stats(s) : s \in Samples}
    /\ sampler = "sleeping"

\* The modes of the real terminal, and what original_termios can hold.
TermModes == {"cooked", "raw"}
SavedAttributes == {"None", "saved"}

\* C32: restore_terminal puts the terminal back into the mode captured at
\* the start when attributes were captured and leaves it alone when none
\* were; a second call changes nothing after the first; and once cleanup
\* has run the terminal is in the mode it had at the start.
C32_RestoreIdempotent ==
    /\ \A m \in TermModes :
         /\ restore_terminal("saved", m) = "cooked"
         /\ restore_terminal("None", m) = m
    /\ \A s \in SavedAttributes, m \in TermModes :
         restore_terminal(s, restore_terminal(s, m)) = restore_terminal(s, m)
    /\ ResetCount >= 1 => term_mode = "cooked"
    /\ original_termios = "None" => term_mode = "cooked"

\* C32 witness: a PTY session on a terminal was interrupted by a signal
\* while the terminal was raw, and ended with the terminal restored.
C32_Witness ==
    /\ pc = "exited"
    /\ mode = "pty"
    /\ stdin_tty
    /\ original_termios = "saved"
    /\ sig_log # <<>>
    /\ sig_log[1].raw
    /\ sig_log[1].handled
    /\ ResetCount = 1
    /\ term_mode = "cooked"

\* C33: set_pty_size never fails outward: whatever pair get_terminal_size
\* returns, the initial sizing goes on to setup_raw_terminal and the resize
\* handler returns to the statement it interrupted, with no exception
\* raised.
C33_SizingNeverAborts ==
    [][/\ (pc = "pty_size" /\ pc' # pc) => (pc' = "pty_raw" /\ exc' = "none")
       /\ (Len(sig_log') > Len(sig_log)
           /\ sig_log'[Len(sig_log')].sig = "SIGWINCH") =>
             (pc' = pc /\ exc' = exc)
      ]_vars

\* C34: the running flag is true when the session starts and, once false,
\* stays false: no step of the signal handler, the relay loop, the cleanup
\* or the sampler sets it back, so it falls at most once.
C34_RunningFallsOnce ==
    /\ [](pc = "run_command" => running)
    /\ [][running' => running]_vars

\* C34 witness: signal_handler cleared the flag while the relay loop ran
\* with a live child; the statement after the loop and the cleanup assigned
\* False again, and the session ended with the flag still false.
C34_Witness ==
    /\ pc = "exited"
    /\ ~running
    /\ Len(sig_log) = 1
    /\ sig_log[1].sig = "SIGTERM"
    /\ sig_log[1].handled
    /\ sig_log[1].at = "pty_select"
    /\ sig_log[1].child = "running"
    /\ ResetCount = 1

\* The proactive titles a Direct session can push: the default title, the
\* separator and a stats text.
DirectTitles ==
    {TITLE_SEQUENCE_FORMAT(default_title \o SEPARATOR \o format_stats(s)) :
        s \in Samples}

\* C35: in Direct mode the rewriter never runs: no chunk is read, the last
\* intercepted title stays empty and the interception timestamp stays at
\* its initial value; the terminal is never made raw; and every proactive
\* title written is the default title, the separator and the stats text.
C35_DirectNeverRewrites ==
    mode = "direct" =>
        /\ chunks = <<>>
        /\ stamps = {}
        /\ last_intercepted_title = <<>>
        /\ last_title_interception = 0
        /\ term_mode = "cooked"
        /\ original_termios = "None"
        /\ \A i \in DOMAIN tty : tty[i].kind # "child"
        /\ \A i \in Pushes : tty[i].bytes \in DirectTitles

\* C35 witness: a Direct session (sleep 5) whose sampler pushed
\* "w> sleep | 12.5% CPU, 102.4MB RAM" before the child ended and the
\* cleanup wrote the reset sequence.
C35_Witness ==
    /\ mode = "direct"
    /\ pc = "exited"
    /\ Len(tty) = 2
    /\ tty[1].kind = "push"
    /\ tty[1].bytes = TITLE_SEQUENCE_FORMAT(
           DefaultTitle(command) \o SEPARATOR
           \o format_stats([cpu_percent |-> 125, memory_mb |-> 1024]))
    /\ tty[2].kind = "reset"
    /\ last_title_update = tty[1].time

\* C36: the reset sequence cleanup writes is the last title-setting
\* sequence on the real terminal: no proactive title follows it.
C36_ResetIsLastTitle ==
    \A i \in DOMAIN tty : \A j \in DOMAIN tty :
        (tty[i].kind = "reset" /\ i < j) => tty[j].kind # "push"

\* C37: in PTY mode no proactive title is written to the real terminal
\* between the two chunks a child escape sequence arrived in: when the
\* sequence was split over two reads, its two parts are next to each other
\* on the terminal.
C37_PushNeverSplitsSequence ==
    (Len(chunks) = 2 /\ chunks[1] \o chunks[2] \in EscapeStreams) =>
        \A i \in Pushes :
            (1 < i /\ i < Len(tty)) =>
                ~(tty[i - 1].kind = "child" /\ tty[i + 1].kind = "child")
====
